---------------------------- MODULE Spec2Model ----------------------------
(***************************************************************************)
(* Verification model of adaptive-olfactory-neuron-coding:                 *)
(*   - the specification parser (src/src/load_specs.py) and the way the    *)
(*     run scripts compile the mapping handed to the model constructor;    *)
(*   - the receptor/CS model (src/src/four_state_receptor_CS.py): its      *)
(*     pipeline steps and its encode_* chains;                             *)
(*   - the temporal run (src/scripts/temporal_CS_run.py);                  *)
(*   - the sweep scripts over the grid of iterated variables               *)
(*     (src/scripts/aggregate_objects.py, calculate_temporal_error_data.py *)
(*     and plot_temporal_data.py).                                         *)
(*                                                                         *)
(* Text is modelled as sequences of one-character strings, Python dicts as *)
(* functions over their key sets, numpy arrays as functions over 0..n-1.   *)
(* Floating-point values produced by the numerical kernels are kept as     *)
(* symbolic terms that record the function applied and every argument it   *)
(* read, so that two values are equal exactly when they were computed the  *)
(* same way from the same inputs.                                          *)
(***************************************************************************)
EXTENDS Integers, Sequences, FiniteSets, TLC

VARIABLES
    \* ---- one run of the specification compilation (CS_run / temporal) ----
    script,          \* which script compiles the mapping
    specs_file,      \* read_specs_file: the lines not read yet
    iter_vars,       \* OrderedDict: sequence of [name, vals] in declaration order
    iter_vars_idxs,  \* the grid index given on the command line
    rel_vars,        \* dict name -> formula, in the dict's iteration order
    fixed_vars,      \* dict name -> value
    params,          \* dict name -> integer override
    vars_to_pass,    \* the accumulator
    run_pc,          \* position of the script
    run_err,         \* "" or the exception that ended the script
    \* ---- one receptor/CS model object and the calls made on it ----
    obj,             \* the model object (a record of its fields)
    twin,            \* the same configuration with another sigma_dSs
    pre,             \* obj as it was before the last call
    last_call,       \* the last method called on obj
    last_err,        \* "" or the exception the last call raised
    chain,           \* the encode_* chain being run ("" outside a chain)
    chain_pc,        \* index of the chain's next step
    log,             \* steps invoked so far by the chain
    enc_kw,          \* keyword mapping given to the encode_* method
    ncalls,          \* number of calls made (bounded)
    \* ---- one temporal run ----
    heap,            \* object store: reference -> model object
    work,            \* reference of the working model
    obj_list,        \* the accumulated list (of references)
    dumped,          \* what dump_objects last persisted (by value)
    iT,              \* next timestep
    t_pc,            \* position of the temporal run
    t_err,           \* "" or the exception that ended it
    t_in,            \* the trace files read and the signal_window argument

    \* the scripts run over a whole grid (aggregate_objects.py,
    \* calculate_temporal_error_data.py, plot_temporal_data.py)
    sw_script,       \* the script that runs
    spec_files,      \* run identifier -> the iter_vars of its specification
    missing,         \* the <<run identifier, grid index>> without an object file
    data_flags,      \* the argument of the script
    flag_no,         \* position in data_flags of the identifier being worked on
    iter_vars_dims,  \* lengths of the iterated variables
    it,              \* the nditer: [multi_index, finished]
    agg_obj_list,    \* aggregate_objects: obj_list
    loads,           \* the <<run identifier, grid index>> of every load_objects call
    aggregated,      \* run identifier -> the saved aggregated object list
    trace,           \* calculate_temporal_success: nT, Tt and signal
    data,            \* calculate_temporal_success, plot_temporal_data: data
    temporal_errors, \* run identifier -> the saved temporal-error summary
    sw_pc,           \* position of the script
    sw_err           \* "" or the exception that ended it

runVars == <<script, specs_file, iter_vars, iter_vars_idxs, rel_vars, fixed_vars, params,
             vars_to_pass, run_pc, run_err>>
modelVars == <<obj, twin, pre, last_call, last_err, chain, chain_pc, log, enc_kw,
               ncalls>>
tempVars == <<heap, work, obj_list, dumped, iT, t_pc, t_err, t_in>>
sweepVars == <<sw_script, spec_files, missing, data_flags, flag_no, iter_vars_dims,
               it, agg_obj_list, loads, aggregated, trace, data, temporal_errors,
               sw_pc, sw_err>>
vars == <<runVars, modelVars, tempVars, sweepVars>>

(***************************************************************************)
(* Bounds of the model.                                                    *)
(***************************************************************************)
MaxIdxLen == 2      \* longest command-line index sequence
MaxIdxVal == 2      \* largest command-line index
MaxRelVars == 2     \* most rel_var records in a specification file
MaxNn == 2          \* largest signal dimension Nn
MaxMm == 1          \* largest receptor count Mm
MaxCalls == 4       \* most method calls made on one object in any order
MaxT == 2           \* most timesteps of a signal trace
MaxLines == 2       \* most lines of a specification file

None == "None"

(***************************************************************************)
(* Text helpers: Python's  sub in s,  s.replace(sub, rep),  '%s' % x  and  *)
(* eval(s) on the arithmetic the formulas use.                             *)
(***************************************************************************)
DigitChar == <<"0", "1", "2", "3", "4", "5", "6", "7", "8", "9">>
Digits == {DigitChar[i] : i \in 1..10}
Letters == {"a", "b", "c", "f", "r", "s"}

DigitVal(c) == CHOOSE d \in 0..9 : DigitChar[d + 1] = c

IsAt(s, sub, i) ==
    /\ i + Len(sub) - 1 <= Len(s)
    /\ SubSeq(s, i, i + Len(sub) - 1) = sub

\* Python:  sub in s
StrContains(s, sub) == \E i \in 1..(Len(s) + 1) : IsAt(s, sub, i)

RECURSIVE ReplaceFrom(_, _, _, _)
ReplaceFrom(s, sub, rep, i) ==
    IF i > Len(s) THEN <<>>
    ELSE IF Len(sub) > 0 /\ IsAt(s, sub, i)
         THEN rep \o ReplaceFrom(s, sub, rep, i + Len(sub))
         ELSE <<s[i]>> \o ReplaceFrom(s, sub, rep, i + 1)

\* Python:  s.replace(sub, rep)  (every non-overlapping occurrence, left to right)
StrReplace(s, sub, rep) == ReplaceFrom(s, sub, rep, 1)

RECURSIVE NatStr(_)
NatStr(n) ==
    IF n < 10 THEN <<DigitChar[n + 1]>>
    ELSE NatStr(n \div 10) \o <<DigitChar[(n % 10) + 1]>>

\* Python:  '%s' % x  for a float x with an integral value: "2.0"
FloatStr(n) == NatStr(n) \o <<".", "0">>

RECURSIVE SplitOn(_, _)
SplitOn(s, sep) ==
    IF \A i \in 1..Len(s) : s[i] # sep THEN <<s>>
    ELSE LET k == CHOOSE i \in 1..Len(s) :
                     s[i] = sep /\ \A j \in 1..(i - 1) : s[j] # sep
         IN  <<SubSeq(s, 1, k - 1)>> \o SplitOn(SubSeq(s, k + 1, Len(s)), sep)

RECURSIVE DigitsVal(_)
DigitsVal(s) ==
    IF Len(s) = 0 THEN 0
    ELSE 10 * DigitsVal(SubSeq(s, 1, Len(s) - 1)) + DigitVal(s[Len(s)])

AllDigits(s) == Len(s) > 0 /\ \A i \in 1..Len(s) : s[i] \in Digits

\* A numeric literal: digits, or digits "." zeros.  -1 when the text is none.
LiteralVal(s) ==
    LET parts == SplitOn(s, ".")
    IN  IF Len(parts) = 1 /\ AllDigits(parts[1]) THEN DigitsVal(parts[1])
        ELSE IF /\ Len(parts) = 2 /\ AllDigits(parts[1])
                /\ \A i \in 1..Len(parts[2]) : parts[2][i] = "0"
             THEN DigitsVal(parts[1])
             ELSE -1

RECURSIVE SeqProduct(_)
SeqProduct(q) == IF Len(q) = 0 THEN 1 ELSE Head(q) * SeqProduct(Tail(q))

RECURSIVE SeqSum(_)
SeqSum(q) == IF Len(q) = 0 THEN 0 ELSE Head(q) + SeqSum(Tail(q))

\* Python:  eval(s)  for sums of products of numeric literals.  A name left
\* in the text raises NameError, any other malformed text SyntaxError.
PyEval(s) ==
    LET terms == SplitOn(s, "+")
        factors(t) == SplitOn(t, "*")
        atoms == [i \in 1..Len(terms) |->
                     [j \in 1..Len(factors(terms[i])) |->
                         LiteralVal(factors(terms[i])[j])]]
        bad == \E i \in 1..Len(atoms) : \E j \in 1..Len(atoms[i]) : atoms[i][j] < 0
    IN  IF \E i \in 1..Len(s) : s[i] \in Letters
        THEN [err |-> "NameError", val |-> 0]
        ELSE IF bad THEN [err |-> "SyntaxError", val |-> 0]
        ELSE [err |-> "",
              val |-> SeqSum([i \in 1..Len(atoms) |-> SeqProduct(atoms[i])])]

(***************************************************************************)
(* Python dicts.                                                           *)
(***************************************************************************)
EmptyDict == [k \in {} |-> 0]

DictPut(d, k, v) == [x \in (DOMAIN d) \cup {k} |-> IF x = k THEN v ELSE d[x]]


\* utils.merge_two_dicts(x, y): a copy of x updated with y (y overrides x)
merge_two_dicts(x, y) ==
    [k \in (DOMAIN x) \cup (DOMAIN y) |-> IF k \in DOMAIN y THEN y[k] ELSE x[k]]

(***************************************************************************)
(* src/src/load_specs.py                                                   *)
(***************************************************************************)
IndexInRange(vals, idx) == -Len(vals) <= idx /\ idx < Len(vals)

PyIndexWrong(vals, idx) == vals[IF idx + 2 > Len(vals) THEN 1 ELSE idx + 2]

\* numpy indexing  vals[idx]  for an index in range (negative ones wrap)
PyIndex(vals, idx) == IF idx >= 0 THEN vals[idx + 1] ELSE vals[Len(vals) + idx + 1]

\* The loop of parse_iterated_vars from position i on: the accumulator is
\* updated in place, so an IndexError leaves the earlier assignments.
RECURSIVE IteratedLoop(_, _, _, _)
IteratedLoop(iv, idxs, vtp, i) ==
    IF i > Len(iv) THEN [err |-> "", vtp |-> vtp]
    ELSE IF ~IndexInRange(iv[i].vals, idxs[i])
         THEN [err |-> "IndexError", vtp |-> vtp]
         ELSE IteratedLoop(iv, idxs,
                           DictPut(vtp, iv[i].name, PyIndex(iv[i].vals, idxs[i])),
                           i + 1)

parse_iterated_vars(iv, idxs, vtp) ==
    IF Len(idxs) # Len(iv)
    THEN [err |-> "AssertionError", vtp |-> vtp]
    ELSE IteratedLoop(iv, idxs, vtp, 1)

\* Position of the first iterated variable, in declaration order, whose name
\* occurs in the formula; 0 when none does.
FirstIterVarIn(iv, var_rule) ==
    IF \E i \in 1..Len(iv) : StrContains(var_rule, iv[i].name)
    THEN CHOOSE i \in 1..Len(iv) :
             /\ StrContains(var_rule, iv[i].name)
             /\ \A j \in 1..(i - 1) : ~StrContains(var_rule, iv[j].name)
    ELSE 0

\* What follows the loop of parse_relative_vars: the assert on flag, which
\* stands after the loop and so reads the flag of the last relative variable;
\* with no relative variable flag was never assigned.
RelativeEpilogue(vtp, flag) ==
    IF flag = "unbound" THEN [err |-> "UnboundLocalError", vtp |-> vtp]
    ELSE IF flag = "False" THEN [err |-> "AssertionError", vtp |-> vtp]
    ELSE [err |-> "", vtp |-> vtp]

\* The loop of parse_relative_vars over rel_vars.items() from position j on.
RECURSIVE RelativeLoop(_, _, _, _, _)
RelativeLoop(rel, iv, vtp, j, flag) ==
    IF j > Len(rel) THEN RelativeEpilogue(vtp, flag)
    ELSE IF rel[j].name \in DOMAIN vtp THEN [err |-> "AssertionError", vtp |-> vtp]
    ELSE LET k == FirstIterVarIn(iv, rel[j].rule) IN
         IF k = 0 THEN RelativeLoop(rel, iv, vtp, j + 1, "False")
         ELSE IF iv[k].name \notin DOMAIN vtp THEN [err |-> "KeyError", vtp |-> vtp]
         ELSE LET tmp_str == StrReplace(rel[j].rule, iv[k].name,
                                        FloatStr(vtp[iv[k].name]))
                  res == PyEval(tmp_str)
              IN  IF res.err # "" THEN [err |-> res.err, vtp |-> vtp]
                  ELSE RelativeLoop(rel, iv, DictPut(vtp, rel[j].name, res.val),
                                    j + 1, "True")

parse_relative_vars(rel, iv, vtp) == RelativeLoop(rel, iv, vtp, 1, "unbound")

(***************************************************************************)
(* Inputs of a run: what a specification file and a command line can give. *)
(***************************************************************************)
NameA == <<"a">>
NameB == <<"b">>
NameR == <<"r">>
NameS == <<"s">>

IterValues == (NameA :> <<1, 2, 3>>) @@ (NameB :> <<10, 20>>)

IterVar(n) == [name |-> n, vals |-> IterValues[n]]

\* order-preserving mappings over the names a, b
IterVarChoices ==
    { <<>>, <<IterVar(NameA)>>, <<IterVar(NameB)>>,
      <<IterVar(NameA), IterVar(NameB)>>, <<IterVar(NameB), IterVar(NameA)>> }

IdxChoices ==
    UNION { [1..n -> (-1)..MaxIdxVal] : n \in 0..MaxIdxLen }

\* formulas:  a*2,  3,  b+a
Rules == { <<"a", "*", "2">>, <<"3">>, <<"b", "+", "a">> }

RelNames == { NameR, NameS, NameA }

RelVarChoices ==
    { q \in UNION { [1..n -> [name : RelNames, rule : Rules]] : n \in 0..MaxRelVars } :
        \A i, j \in 1..Len(q) : i # j => q[i].name # q[j].name }

FixedChoices ==
    { EmptyDict, (NameA :> 7), (NameR :> 8), (NameA :> 7) @@ (NameR :> 8) }

ParamChoices ==
    { EmptyDict, (NameA :> 9), (NameR :> 9), (NameA :> 9) @@ (NameR :> 9) }

Scripts == { "CS_run", "temporal_CS_run" }

(***************************************************************************)
(* The scripts' compilation of the constructor's keyword mapping.          *)
(***************************************************************************)
\* CS_run.py line 49: the fixed variables are merged onto the accumulator
CS_run_merge_fixed(vtp, fixed) == merge_two_dicts(vtp, fixed)

\* load_specs.compile_all_run_vars, as the specification states it: the
\* fixed variables first, the iterated and relative values merged onto them
compile_merge_fixed(vtp, fixed) == merge_two_dicts(fixed, vtp)

\* CS_run.py line 50: the integer parameter overrides are merged last
merge_params(vtp, prm) == merge_two_dicts(vtp, prm)

ModelIdle ==
    /\ obj = None /\ twin = None /\ pre = None
    /\ last_call = "" /\ last_err = ""
    /\ chain = "" /\ chain_pc = 0 /\ log = <<>> /\ enc_kw = EmptyDict /\ ncalls = 0

TempIdle ==
    /\ heap = <<>> /\ work = 0 /\ obj_list = <<>> /\ dumped = <<>>
    /\ iT = 0 /\ t_pc = "" /\ t_err = "" /\ t_in = <<>>

SweepIdle ==
    /\ sw_script = "" /\ spec_files = <<>> /\ missing = {} /\ data_flags = <<>>
    /\ flag_no = 0 /\ iter_vars_dims = <<>> /\ it = <<>> /\ agg_obj_list = <<>>
    /\ loads = <<>> /\ aggregated = <<>> /\ trace = <<>> /\ data = <<>>
    /\ temporal_errors = <<>>
    /\ sw_pc = "" /\ sw_err = ""

RunIdle ==
    /\ script = "" /\ specs_file = <<>> /\ iter_vars = <<>> /\ iter_vars_idxs = <<>>
    /\ rel_vars = None /\ fixed_vars = None /\ params = None
    /\ vars_to_pass = EmptyDict /\ run_pc = "" /\ run_err = ""

\* The script has read the specification file and the command line.
RunInit ==
    /\ script \in Scripts
    /\ specs_file = <<>>
    /\ iter_vars \in IterVarChoices
    /\ iter_vars_idxs \in IdxChoices
    /\ rel_vars = None /\ fixed_vars = None /\ params = None
    /\ vars_to_pass = EmptyDict
    /\ run_pc = "start"
    /\ run_err = ""
    /\ ModelIdle /\ TempIdle /\ SweepIdle

\* vars_to_pass = parse_iterated_vars(iter_vars, iter_var_idxs, vars_to_pass)
ParseIterated ==
    /\ run_pc = "start"
    /\ LET r == parse_iterated_vars(iter_vars, iter_vars_idxs, vars_to_pass)
       IN  /\ vars_to_pass' = r.vtp
           /\ run_err' = r.err
    /\ run_pc' = "iterated"
    /\ UNCHANGED <<script, specs_file, iter_vars, iter_vars_idxs, rel_vars, fixed_vars, params>>
    /\ UNCHANGED <<modelVars, tempVars, sweepVars>>

\* vars_to_pass = parse_relative_vars(rel_vars, iter_vars, vars_to_pass)
ParseRelative ==
    /\ run_pc = "iterated" /\ run_err = ""
    /\ \E rel \in RelVarChoices :
          LET r == parse_relative_vars(rel, iter_vars, vars_to_pass)
          IN  /\ rel_vars' = rel
              /\ vars_to_pass' = r.vtp
              /\ run_err' = r.err
    /\ run_pc' = "relative"
    /\ UNCHANGED <<script, specs_file, iter_vars, iter_vars_idxs, fixed_vars, params>>
    /\ UNCHANGED <<modelVars, tempVars, sweepVars>>

\* the merge of the fixed variables
MergeFixed ==
    /\ run_pc = "relative" /\ run_err = ""
    /\ \E fx \in FixedChoices :
          /\ fixed_vars' = fx
          /\ vars_to_pass' = IF script = "CS_run"
                             THEN CS_run_merge_fixed(vars_to_pass, fx)
                             ELSE compile_merge_fixed(vars_to_pass, fx)
    /\ run_pc' = "merged_fixed"
    /\ UNCHANGED <<script, specs_file, iter_vars, iter_vars_idxs, rel_vars, params, run_err>>
    /\ UNCHANGED <<modelVars, tempVars, sweepVars>>

\* the merge of the parameter overrides
MergeParams ==
    /\ run_pc = "merged_fixed" /\ run_err = ""
    /\ \E prm \in ParamChoices :
          /\ params' = prm
          /\ vars_to_pass' = merge_params(vars_to_pass, prm)
    /\ run_pc' = "merged"
    /\ UNCHANGED <<script, specs_file, iter_vars, iter_vars_idxs, rel_vars, fixed_vars, run_err>>
    /\ UNCHANGED <<modelVars, tempVars, sweepVars>>

\* four_state_receptor_CS(**vars_to_pass)
Construct ==
    /\ run_pc = "merged" /\ run_err = ""
    /\ run_pc' = "constructed"
    /\ UNCHANGED <<script, specs_file, iter_vars, iter_vars_idxs, rel_vars, fixed_vars, params,
                   vars_to_pass, run_err>>
    /\ UNCHANGED <<modelVars, tempVars, sweepVars>>

RunNext == ParseIterated \/ ParseRelative \/ MergeFixed \/ MergeParams \/ Construct

SpecRun == RunInit /\ [][RunNext]_vars

(***************************************************************************)
(* Claims about the compilation of run variables.                          *)
(***************************************************************************)
IterNames == { iter_vars[i].name : i \in 1..Len(iter_vars) }

IdxsInside ==
    /\ Len(iter_vars_idxs) = Len(iter_vars)
    /\ \A i \in 1..Len(iter_vars) :
          0 <= iter_vars_idxs[i] /\ iter_vars_idxs[i] < Len(iter_vars[i].vals)

\* C1: parse_iterated_vars maps every iterated variable, in declaration
\* order, to the element of its sequence at the index in the same position
\* when the indices are as many as the variables and inside their sequences;
\* with a different number of indices it fails and assigns nothing.
C1_IteratedResolved ==
    run_pc = "iterated" =>
       /\ IdxsInside =>
             /\ run_err = ""
             /\ DOMAIN vars_to_pass = IterNames
             /\ \A i \in 1..Len(iter_vars) :
                   vars_to_pass[iter_vars[i].name] =
                       iter_vars[i].vals[iter_vars_idxs[i] + 1]
       /\ Len(iter_vars_idxs) # Len(iter_vars) =>
             /\ run_err = "AssertionError"
             /\ vars_to_pass = EmptyDict

C1_Witness ==
    /\ run_pc = "iterated" /\ run_err = ""
    /\ iter_vars = <<IterVar(NameA), IterVar(NameB)>>
    /\ iter_vars_idxs = <<1, 0>>
    /\ vars_to_pass[NameA] = 2 /\ vars_to_pass[NameB] = 10

\* C2: parse_relative_vars fails whenever some relative variable's formula
\* contains no iterated-variable name, whichever its position.
C2_UnresolvedRelVarFails ==
    (/\ run_pc = "relative"
     /\ \E j \in 1..Len(rel_vars) : FirstIterVarIn(iter_vars, rel_vars[j].rule) = 0)
       => run_err # ""

\* The accumulator after the iterated and relative values were resolved.
IterRelResolved ==
    parse_relative_vars(rel_vars, iter_vars,
        parse_iterated_vars(iter_vars, iter_vars_idxs, EmptyDict).vtp).vtp

\* C3: in the mapping handed to the constructor a parameter override wins
\* over everything, and an iterated or relative value over a fixed value.
C3_MergePrecedence ==
    run_pc = "constructed" =>
       /\ DOMAIN vars_to_pass =
              (DOMAIN fixed_vars) \cup (DOMAIN IterRelResolved) \cup (DOMAIN params)
       /\ \A k \in DOMAIN vars_to_pass :
             vars_to_pass[k] =
                IF k \in DOMAIN params THEN params[k]
                ELSE IF k \in DOMAIN IterRelResolved THEN IterRelResolved[k]
                ELSE fixed_vars[k]

(***************************************************************************)
(* src/src/four_state_receptor_CS.py: the model object.                    *)
(*                                                                         *)
(* Floats the steps compute with (means, deviations, fractions, mixture    *)
(* weights) are integers counting thousandths, so 1.0 is 1000; the other   *)
(* float defaults are kept as their literals.  A field holding Python's    *)
(* None is listed in the object's  none  set, an attribute not created yet *)
(* in its  absent  set.  np  lists the fields whose value is a numpy       *)
(* scalar (an element of an iterated variable's array) rather than a       *)
(* Python number.  rng  is the state of the numpy global generator of the  *)
(* process that holds the object.                                          *)
(***************************************************************************)
INT_PARAMS == { "Nn", "Kk", "Mm", "seed_Ss0", "seed_dSs", "seed_Kk1", "seed_Kk2",
                "seed_receptor_activity", "Kk_split" }

StateFields == { "Kk1", "Kk2", "Ss0", "dSs", "Ss", "Yy0", "dYy", "Yy", "eps" }

LateFields == { "idxs", "idxs_2", "Ss0_noisy", "eps_base", "Rr", "dSs_est",
                "signal_trace", "signal_trace_Tt", "signal_trace_2" }

NoneDefaults == StateFields \cup { "Kk_split", "mu_dSs_2", "sigma_dSs_2",
                                   "manual_dSs_idxs" }

Defaults ==
    [ Kk1 |-> <<>>, Kk2 |-> <<>>, Ss0 |-> <<>>, dSs |-> <<>>, Ss |-> <<>>,
      Yy0 |-> <<>>, dYy |-> <<>>, Yy |-> <<>>, eps |-> <<>>,
      idxs |-> {}, idxs_2 |-> {}, Ss0_noisy |-> <<>>, eps_base |-> <<>>,
      Rr |-> <<>>, dSs_est |-> <<>>,
      signal_trace |-> <<>>, signal_trace_Tt |-> <<>>, signal_trace_2 |-> <<>>,
      Nn |-> 50, Kk |-> 5, Mm |-> 20, Kk_split |-> 0,
      seed_Ss0 |-> 1, seed_dSs |-> 1, seed_Kk1 |-> 1, seed_Kk2 |-> 1,
      seed_inhibition |-> 1, seed_eps |-> 1, seed_receptor_activity |-> 1,
      seed_adapted_activity |-> 1,
      mu_Ss0 |-> 1000, sigma_Ss0 |-> 1, mu_dSs |-> 300, sigma_dSs |-> 100,
      mu_dSs_2 |-> 0, sigma_dSs_2 |-> 0,
      manual_dSs_idxs |-> {},
      mu_Kk1 |-> "1e4", sigma_Kk1 |-> "1e3", mu_Kk2 |-> "1e-3", sigma_Kk2 |-> "1e-4",
      mu_Kk1_1 |-> "1e4", sigma_Kk1_1 |-> "1e3", mu_Kk1_2 |-> "1e4",
      sigma_Kk1_2 |-> "1e3", mu_Kk2_1 |-> "1e-3", sigma_Kk2_1 |-> "1e-4",
      mu_Kk2_2 |-> "1e-3", sigma_Kk2_2 |-> "1e-4",
      Kk1_p |-> 500, Kk2_p |-> 500,
      lo_Kk1_hyper_lo |-> "1e2", lo_Kk1_hyper_hi |-> "1e2",
      hi_Kk1_hyper_lo |-> "1e2", hi_Kk1_hyper_hi |-> "1e2",
      lo_Kk2_hyper_lo |-> "1e-4", lo_Kk2_hyper_hi |-> "1e-4",
      hi_Kk2_hyper_lo |-> "1e-3", hi_Kk2_hyper_hi |-> "1e-3",
      mu_Kk1_hyper_lo |-> "1e4", mu_Kk1_hyper_hi |-> "1e4",
      sigma_Kk1_hyper_lo |-> "1e3", sigma_Kk1_hyper_hi |-> "1e3",
      mu_Kk2_hyper_lo |-> "1e-3", mu_Kk2_hyper_hi |-> "1e-3",
      sigma_Kk2_hyper_lo |-> "1e-4", sigma_Kk2_hyper_hi |-> "1e-4",
      inhibitory_fraction |-> 0, inhibitory_total_activity |-> 0,
      activity_p |-> 500,
      receptor_tuning_mixture_mu_1 |-> "0.5", receptor_tuning_mixture_mu_2 |-> "0.5",
      receptor_tuning_mixture_sigma_1 |-> "0.1",
      receptor_tuning_mixture_sigma_2 |-> "0.1",
      uniform_activity_lo |-> "1e-5", uniform_activity_hi |-> "1e-4",
      receptor_tuning_mu_hyper_mu |-> "0.2", receptor_tuning_mu_hyper_sigma |-> "0",
      receptor_tuning_sigma_hyper_lo |-> "0", receptor_tuning_sigma_hyper_hi |-> "0.3",
      mu_eps |-> 5000, sigma_eps |-> 0,
      normal_eps_tuning_prefactor |-> "0.0", normal_eps_tuning_width |-> "1.0",
      WL_scaling |-> "0.0",
      adapted_activity_mu |-> "0.5", adapted_activity_sigma |-> "0.01",
      none |-> NoneDefaults, absent |-> LateFields, np |-> {},
      rng |-> <<"entropy">> ]

\* no conversion
NotConverted(x) == x

\* Python:  int(x)  for a float given in thousandths (truncation toward zero)
PyInt(x) == IF x >= 0 THEN x \div 1000 ELSE -((-x) \div 1000)

\* four_state_receptor_CS(**kwargs): the defaults, then every passed field
\* overwritten, converted with int() when it is one of INT_PARAMS.  kwargs
\* gives floats in thousandths; npkeys names the keys whose value is a numpy
\* scalar.
four_state_receptor_CS(kwargs, npkeys) ==
    [ f \in DOMAIN Defaults |->
        IF f \in DOMAIN kwargs
        THEN IF f \in INT_PARAMS THEN PyInt(kwargs[f]) ELSE kwargs[f]
        ELSE IF f = "none" THEN NoneDefaults \ (DOMAIN kwargs)
        ELSE IF f = "np" THEN (npkeys \cap DOMAIN kwargs) \ INT_PARAMS
        ELSE Defaults[f] ]

IsNone(o, f) == f \in o.none

Assigned(o, fs) == [o EXCEPT !.none = @ \ fs, !.absent = @ \ fs]

Ok(o) == [obj |-> o, err |-> ""]
Raise(o, e) == [obj |-> o, err |-> e]

(***************************************************************************)
(* The seeded numpy generator.  After  seed(s)  the k-th call of           *)
(* choice(pool, size, replace=False)  returns a set of  size  distinct     *)
(* elements of the pool that is a function of s and k alone.               *)
(***************************************************************************)
RECURSIVE SortedSeq(_)
SortedSeq(S) ==
    IF S = {} THEN <<>>
    ELSE LET m == CHOOSE x \in S : \A y \in S : x <= y
         IN  <<m>> \o SortedSeq(S \ {m})

Choice(seed, k, pool, size) ==
    LET p == SortedSeq(pool)
    IN  { p[((seed + k + i) % Len(p)) + 1] : i \in 0..(size - 1) }

\* a generator of its own: the global one is left as it was
PrivateGenerator(o, seed, who) == o

\* sp.random.seed(seed)
Seeded(o, seed, who) == [o EXCEPT !.rng = <<"seeded", seed, who>>]

Idx(n) == 0..(n - 1)

Zero == <<"zero">>
Inf == <<"inf">>

(***************************************************************************)
(* lin_alg_structs (not among the sources): the generators as the          *)
(* specification describes them.                                           *)
(***************************************************************************)
\* sparse_vector([Nn, Kk], [mean, stddev], seed): Kk distinct indices of
\* [0, Nn) as support, their values drawn from the Gaussian
sparse_vector(Nn, Kk, mu, sigma, seed) ==
    IF Kk > Nn \/ Kk < 0 THEN [err |-> "ValueError", vec |-> <<>>, idxs |-> {}]
    ELSE LET sup == Choice(seed, 0, Idx(Nn), Kk)
         IN  [err |-> "",
              vec |-> [i \in Idx(Nn) |->
                         IF i \in sup THEN <<"normal", mu, sigma, seed, i>> ELSE Zero],
              idxs |-> sup]

\* manual_sparse_vector(Nn, idxs, [mean, stddev], seed): the same with the
\* caller's support
manual_sparse_vector(Nn, idxs, mu, sigma, seed) ==
    IF ~(idxs \subseteq Idx(Nn)) THEN [err |-> "IndexError", vec |-> <<>>]
    ELSE [err |-> "",
          vec |-> [i \in Idx(Nn) |->
                     IF i \in idxs THEN <<"normal", mu, sigma, seed, i>> ELSE Zero]]

\* sparse_vector_bkgrnd([Nn, Kk], idxs, [mean, stddev], seed): the noise-free
\* background and an independently perturbed copy
sparse_vector_bkgrnd(Nn, Kk, idxs, mu, sigma, seed) ==
    IF ~(idxs \subseteq Idx(Nn)) THEN [err |-> "IndexError", Ss0 |-> <<>>, noisy |-> <<>>]
    ELSE [err |-> "",
          Ss0 |-> [i \in Idx(Nn) |-> IF i \in idxs THEN <<"const", mu>> ELSE Zero],
          noisy |-> [i \in Idx(Nn) |->
                       IF i \in idxs THEN <<"normal", mu, sigma, seed, i>> ELSE Zero]]

\* elementwise sum of two arrays
VecAdd(x, y) == [i \in DOMAIN x |-> <<"+", x[i], y[i]>>]

VecSub(x, y) == [i \in DOMAIN x |-> <<"-", x[i], y[i]>>]

(***************************************************************************)
(* Stimulus functions.                                                     *)
(***************************************************************************)
\* lines 190-208 guard: a second odor is asked for
SplitRequested(o) == ~IsNone(o, "Kk_split") /\ o.Kk_split # 0

\* line 192
SplitInRange(o) == 0 <= o.Kk_split /\ o.Kk_split <= o.Kk

\* lines 195-196
DualParamsSet(o) == ~IsNone(o, "mu_dSs_2") /\ ~IsNone(o, "sigma_dSs_2")

DualOdorIdxsAnywhere(o, idxs) == Choice(o.seed_dSs, 1, Idx(o.Nn), o.Kk_split)

\* lines 200-202: seed, then Kk_split indices of the support without replacement
DualOdorIdxs(o, idxs) == Choice(o.seed_dSs, 0, idxs, o.Kk_split)

\* lines 203-205: the chosen components redrawn from the second distribution
DualOdorOverwrite(o, dSs, idxs_2) ==
    [i \in DOMAIN dSs |->
        IF i \in idxs_2
        THEN <<"normal", o.mu_dSs_2, o.sigma_dSs_2, o.seed_dSs, "second", i>>
        ELSE dSs[i]]

\* lines 210-215 and 228-235: background, then Ss = dSs + Ss0_noisy
SetBackground(o, idxs) ==
    LET bk == sparse_vector_bkgrnd(o.Nn, o.Kk, idxs, o.mu_Ss0, o.sigma_Ss0, o.seed_Ss0)
    IN  IF bk.err # "" THEN Raise(o, bk.err)
        ELSE Ok(Seeded(Assigned([o EXCEPT !.Ss0 = bk.Ss0, !.Ss0_noisy = bk.noisy,
                                          !.Ss = VecAdd(o.dSs, bk.noisy)],
                                {"Ss0", "Ss0_noisy", "Ss"}),
                       o.seed_Ss0, "sparse_vector_bkgrnd"))

set_sparse_signals(o) ==
    LET sv == sparse_vector(o.Nn, o.Kk, o.mu_dSs, o.sigma_dSs, o.seed_dSs)
        o1 == Seeded(Assigned([o EXCEPT !.dSs = sv.vec, !.idxs = sv.idxs],
                              {"dSs", "idxs"}),
                     o.seed_dSs, "sparse_vector")
    IN  IF sv.err # "" THEN Raise(o, sv.err)
        ELSE IF SplitRequested(o1)
        THEN IF ~SplitInRange(o1) THEN Raise(o1, "AssertionError")
             ELSE IF ~DualParamsSet(o1) THEN Raise(o1, "AssertionError")
             ELSE LET i2 == DualOdorIdxs(o1, o1.idxs)
                      o2 == Seeded(Assigned([o1 EXCEPT
                                       !.idxs_2 = i2,
                                       !.dSs = DualOdorOverwrite(o1, o1.dSs, i2)],
                                     {"idxs_2"}),
                                   o1.seed_dSs, "set_sparse_signals")
                  IN  SetBackground(o2, o2.idxs)
        ELSE SetBackground(Assigned([o1 EXCEPT !.idxs_2 = {}, !.Kk_split = 0],
                                    {"idxs_2", "Kk_split"}),
                           o1.idxs)

set_manual_signals(o) ==
    IF IsNone(o, "manual_dSs_idxs")
    THEN Raise([o EXCEPT !.none = @ \cup {"idxs"}, !.absent = @ \ {"idxs"}],
               "TypeError")
    ELSE LET mv == manual_sparse_vector(o.Nn, o.manual_dSs_idxs, o.mu_dSs,
                                        o.sigma_dSs, o.seed_dSs)
             o0 == Assigned([o EXCEPT !.idxs = o.manual_dSs_idxs], {"idxs"})
             o1 == Seeded(Assigned([o0 EXCEPT !.dSs = mv.vec], {"dSs"}),
                          o.seed_dSs, "manual_sparse_vector")
         IN  IF mv.err # "" THEN Raise(o0, mv.err)
             ELSE SetBackground(o1, o1.manual_dSs_idxs)

(***************************************************************************)
(* lin_alg_structs.random_matrix, utils.clip_array and the kinetics module *)
(* (not among the sources), as the specification describes them: seeded    *)
(* draws and closed-form equations, kept as terms over what they read.     *)
(***************************************************************************)
AnyNone(o, fs) == \E f \in fs : IsNone(o, f) \/ f \in o.absent

\* random_matrix([m], [a, b], sample_type, seed)
RandVec(tag, a, b, seed, m) == [i \in Idx(m) |-> <<tag, a, b, seed, i>>]

\* random_matrix([m, n], [a, b], sample_type, seed) for rows first..first+m-1
RandBlock(tag, a, b, seed, m, n) ==
    [i \in Idx(m) |-> [j \in Idx(n) |-> <<tag, a, b, seed, i, j>>]]

\* random_matrix([m, n], [va, vb], 'rank2_row_*', seed): per-row parameters
RandRows(tag, va, vb, seed, m, n) ==
    [i \in Idx(m) |-> [j \in Idx(n) |-> <<tag, va[i], vb[i], seed, i, j>>]]

\* clip_array: every entry clipped into the numerically safe range
ClipArray(M) == [i \in DOMAIN M |-> [j \in DOMAIN M[i] |-> <<"clip", M[i][j]>>]]

Clipped(clip, M) == IF clip THEN ClipArray(M) ELSE M

\* kinetics.receptor_activity / bkgrnd_activity (S, Kk1, Kk2, eps)
receptor_activity(S, Kk1, Kk2, eps) ==
    [i \in DOMAIN eps |-> <<"receptor_activity", S, Kk1[i], Kk2[i], eps[i]>>]

\* kinetics.linear_gain(S, Kk1, Kk2, eps): the Mm x Nn sensitivity at S
linear_gain(S, Kk1, Kk2, eps) ==
    [i \in DOMAIN eps |->
        [j \in DOMAIN S |-> <<"linear_gain", S, Kk1[i], Kk2[i], eps[i], j>>]]

\* kinetics.free_energy(S, Kk1, Kk2, activity)
free_energy(S, Kk1, Kk2, act) ==
    [i \in DOMAIN act |-> <<"free_energy", S, Kk1[i], Kk2[i], act[i]>>]

\* kinetics.Kk2_eval_normal_activity(shape, mus, sigmas, mu_Ss0, mu_eps, seed)
Kk2_eval_normal_activity(m, n, mus, sigmas, mu_Ss0, mu_eps, seed) ==
    [i \in Idx(m) |-> [j \in Idx(n) |->
        <<"Kk2_eval_normal_activity", mus[i], sigmas[i], mu_Ss0, mu_eps, seed, i, j>>]]

\* kinetics.Kk2_eval_uniform_activity(shape, [lo, hi], mu_Ss0, mu_eps, seed)
Kk2_eval_uniform_activity(m, n, lo, hi, mu_Ss0, mu_eps, seed) ==
    [i \in Idx(m) |-> [j \in Idx(n) |->
        <<"Kk2_eval_uniform_activity", lo, hi, mu_Ss0, mu_eps, seed, i, j>>]]

\* The  Kk1, Kk2  assignment ending every binding step, clipped by default.
SetKk(o, Kk1, Kk2, clip, who) ==
    Seeded(Assigned([o EXCEPT !.Kk1 = Clipped(clip, Kk1), !.Kk2 = Clipped(clip, Kk2)],
                    {"Kk1", "Kk2"}),
           o.seed_Kk2, who)

(***************************************************************************)
(* Energy functions.                                                       *)
(***************************************************************************)
AdaptedAlwaysAllowed(o) == TRUE

\* line 250: adapted free energy only without inhibitory neurons
AdaptedAllowed(o) == o.inhibitory_fraction = 0

set_adapted_free_energy(o) ==
    IF ~AdaptedAllowed(o) THEN Raise(o, "AssertionError")
    ELSE LET act == RandVec("normal", o.adapted_activity_mu, o.adapted_activity_sigma,
                            o.seed_adapted_activity, o.Mm)
             o1 == Seeded(o, o.seed_adapted_activity, "random_matrix")
         IN  IF AnyNone(o, {"Ss0", "Kk1", "Kk2"}) THEN Raise(o1, "TypeError")
             ELSE Ok(Assigned([o1 EXCEPT !.eps = free_energy(o.Ss0, o.Kk1, o.Kk2, act)],
                              {"eps"}))

set_normal_free_energy(o) ==
    LET base == [i \in Idx(o.Mm) |->
                    <<"eps_base", o.mu_eps, o.normal_eps_tuning_prefactor,
                      o.normal_eps_tuning_width, o.sigma_eps, o.seed_eps, i>>]
    IN  Ok(Seeded(Assigned([o EXCEPT
                     !.eps_base = base,
                     !.eps = [i \in Idx(o.Mm) |->
                                <<"normal_eps", o.WL_scaling, o.mu_dSs, base[i]>>]],
                   {"eps", "eps_base"}),
                  o.seed_eps, "random_matrix"))

set_random_free_energy(o) ==
    Ok(Seeded(Assigned([o EXCEPT
                 !.eps = RandVec("normal", o.mu_eps, o.sigma_eps, o.seed_eps, o.Mm)],
               {"eps"}),
              o.seed_eps, "random_matrix"))

\* set_temporal_adapted_epsilon (not among the sources): the free energy
\* re-derived at the current background from its previous value
set_temporal_adapted_epsilon(o) ==
    IF AnyNone(o, {"Ss0", "Kk1", "Kk2", "eps"}) THEN Raise(o, "TypeError")
    ELSE Ok([o EXCEPT !.eps = [i \in DOMAIN o.eps |->
                <<"temporal_adapted_epsilon", o.Ss0, o.Kk1[i], o.Kk2[i], o.eps[i]>>]])

(***************************************************************************)
(* Binding functions.                                                      *)
(***************************************************************************)
WeightOk(p) == 0 <= p /\ p <= 1000

\* rows [0, k) from the first component, rows [k, m) from the second, each
\* block drawn by its own random_matrix call
MixtureMatrix(a1, b1, a2, b2, seed, k, m, n) ==
    [i \in Idx(m) |-> [j \in Idx(n) |->
        IF i < k THEN <<"normal", a1, b1, seed, i, j>>
                 ELSE <<"normal", a2, b2, seed, i - k, j>>]]

set_mixture_Kk(o, clip) ==
    IF ~WeightOk(o.Kk1_p) \/ ~WeightOk(o.Kk2_p) THEN Raise(o, "AssertionError")
    ELSE Ok(SetKk(o,
                  MixtureMatrix(o.mu_Kk1_1, o.sigma_Kk1_1, o.mu_Kk1_2, o.sigma_Kk1_2,
                                o.seed_Kk1, PyInt(o.Kk1_p * o.Mm), o.Mm, o.Nn),
                  MixtureMatrix(o.mu_Kk2_1, o.sigma_Kk2_1, o.mu_Kk2_2, o.sigma_Kk2_2,
                                o.seed_Kk2, PyInt(o.Kk2_p * o.Mm), o.Mm, o.Nn),
                  clip, "set_mixture_Kk"))

set_normal_Kk(o, clip) ==
    LET Kk1_mus == RandVec("uniform", o.mu_Kk1_hyper_lo, o.mu_Kk1_hyper_hi,
                           o.seed_Kk1, o.Mm)
        Kk1_sigmas == RandVec("uniform", o.sigma_Kk1_hyper_lo, o.sigma_Kk1_hyper_hi,
                              o.seed_Kk1, o.Mm)
        Kk2_mus == RandVec("uniform", o.mu_Kk2_hyper_lo, o.mu_Kk2_hyper_hi,
                           o.seed_Kk2, o.Mm)
        Kk2_sigmas == RandVec("uniform", o.sigma_Kk2_hyper_lo, o.sigma_Kk2_hyper_hi,
                              o.seed_Kk2, o.Mm)
    IN  Ok(SetKk(o,
                 RandRows("rank2_row_gaussian", Kk1_mus, Kk1_sigmas, o.seed_Kk1,
                          o.Mm, o.Nn),
                 RandRows("rank2_row_gaussian", Kk2_mus, Kk2_sigmas, o.seed_Kk2,
                          o.Mm, o.Nn),
                 clip, "set_normal_Kk"))

set_uniform_Kk(o, clip) ==
    LET Kk1_los == RandVec("uniform", o.lo_Kk1_hyper_lo, o.lo_Kk1_hyper_hi,
                           o.seed_Kk1, o.Mm)
        Kk1_his == RandVec("uniform", o.hi_Kk1_hyper_lo, o.hi_Kk1_hyper_hi,
                           o.seed_Kk1, o.Mm)
        Kk2_los == RandVec("uniform", o.lo_Kk2_hyper_lo, o.lo_Kk2_hyper_hi,
                           o.seed_Kk2, o.Mm)
        Kk2_his == RandVec("uniform", o.hi_Kk2_hyper_lo, o.hi_Kk2_hyper_hi,
                           o.seed_Kk2, o.Mm)
    IN  Ok(SetKk(o,
                 RandRows("rank2_row_uniform", Kk1_los, Kk1_his, o.seed_Kk1,
                          o.Mm, o.Nn),
                 RandRows("rank2_row_uniform", Kk2_los, Kk2_his, o.seed_Kk2,
                          o.Mm, o.Nn),
                 clip, "set_uniform_Kk"))

(***************************************************************************)
(* Inhibition.                                                             *)
(***************************************************************************)
\* line 405:  int(1.0*Nn*inhibitory_fraction)
num_inhibitory(o) == PyInt(o.Nn * o.inhibitory_fraction)

\* line 415:  inhibitory_total_activity**-1.  raises ZeroDivisionError for a
\* Python number equal to zero; a numpy scalar gives inf.
PowerRaises(o) ==
    o.inhibitory_total_activity = 0 /\ "inhibitory_total_activity" \notin o.np

\* lines 410-421 for receptor iM, the iM-th choice after the seeding
InhibitRow(o, Kk1, Kk2, iM) ==
    LET inh == Choice(o.seed_inhibition, iM, Idx(o.Nn), num_inhibitory(o))
        exc == Idx(o.Nn) \ inh
        strength == <<"inhibitory_strength", num_inhibitory(o),
                      o.inhibitory_total_activity, o.eps[iM],
                      [j \in exc |-> Kk1[iM][j]], [j \in exc |-> Kk2[iM][j]]>>
    IN  [Kk1 |-> [j \in Idx(o.Nn) |-> IF j \in inh THEN strength ELSE Kk1[iM][j]],
         Kk2 |-> [j \in Idx(o.Nn) |-> IF j \in inh THEN Inf ELSE Kk2[iM][j]]]

add_inhibition(o) ==
    IF ~(0 <= o.inhibitory_fraction /\ o.inhibitory_fraction <= 1000)
    THEN Raise(o, "AssertionError")
    ELSE LET o1 == Seeded(o, o.seed_inhibition, "add_inhibition")
         IN  IF o.Mm = 0 THEN Ok(o1)
             ELSE IF AnyNone(o, {"Kk1", "Kk2"}) THEN Raise(o1, "TypeError")
             ELSE IF PowerRaises(o) THEN Raise(o1, "ZeroDivisionError")
             ELSE IF AnyNone(o, {"eps"}) THEN Raise(o1, "TypeError")
             ELSE Ok([o1 EXCEPT
                        !.Kk1 = [i \in Idx(o.Mm) |-> InhibitRow(o, o.Kk1, o.Kk2, i).Kk1],
                        !.Kk2 = [i \in Idx(o.Mm) |-> InhibitRow(o, o.Kk1, o.Kk2, i).Kk2]])

(***************************************************************************)
(* Activity functions.  kw is the keyword mapping of the call: a local     *)
(* mu_Ss0 or mu_eps named in it replaces the field's value.                *)
(***************************************************************************)
Local(o, kw, f) == IF f \in DOMAIN kw THEN kw[f] ELSE o[f]

Kk1_single_gaussian(o) ==
    RandBlock("normal", o.mu_Kk1, o.sigma_Kk1, o.seed_Kk1, o.Mm, o.Nn)

set_Kk2_normal_activity(o, clip, kw) ==
    LET activity_mus == RandVec("normal", o.receptor_tuning_mu_hyper_mu,
                                o.receptor_tuning_mu_hyper_sigma,
                                o.seed_receptor_activity, o.Mm)
        activity_sigmas == RandVec("uniform", o.receptor_tuning_sigma_hyper_lo,
                                   o.receptor_tuning_sigma_hyper_hi,
                                   o.seed_receptor_activity, o.Mm)
    IN  Ok(SetKk(o, Kk1_single_gaussian(o),
                 Kk2_eval_normal_activity(o.Mm, o.Nn, activity_mus, activity_sigmas,
                                          Local(o, kw, "mu_Ss0"), Local(o, kw, "mu_eps"),
                                          o.seed_Kk2),
                 clip, "set_Kk2_normal_activity"))

\* the keyword mapping is accepted and not read
set_Kk2_uniform_activity(o, clip, kw) ==
    Ok(SetKk(o, Kk1_single_gaussian(o),
             Kk2_eval_uniform_activity(o.Mm, o.Nn, o.uniform_activity_lo,
                                       o.uniform_activity_hi, o.mu_Ss0, o.mu_eps,
                                       o.seed_Kk2),
             clip, "set_Kk2_uniform_activity"))

set_Kk2_normal_activity_mixture(o, clip, kw) ==
    LET k == PyInt(o.activity_p * o.Mm)
        activity_mus == [i \in Idx(o.Mm) |->
                            IF i < k THEN o.receptor_tuning_mixture_mu_1
                                     ELSE o.receptor_tuning_mixture_mu_2]
        activity_sigmas == [i \in Idx(o.Mm) |->
                               IF i < k THEN o.receptor_tuning_mixture_sigma_1
                                        ELSE o.receptor_tuning_mixture_sigma_2]
        o1 == Seeded(Assigned([o EXCEPT !.Kk1 = Kk1_single_gaussian(o)], {"Kk1"}),
                     o.seed_Kk1, "random_matrix")
    IN  IF ~WeightOk(o.activity_p) THEN Raise(o1, "AssertionError")
        ELSE Ok(SetKk(o, Kk1_single_gaussian(o),
                      Kk2_eval_normal_activity(o.Mm, o.Nn, activity_mus,
                                               activity_sigmas,
                                               Local(o, kw, "mu_Ss0"),
                                               Local(o, kw, "mu_eps"), o.seed_Kk2),
                      clip, "set_Kk2_normal_activity_mixture"))

set_measured_activity(o) ==
    IF AnyNone(o, {"Ss", "Ss0", "Kk1", "Kk2", "eps"}) THEN Raise(o, "TypeError")
    ELSE LET Yy == receptor_activity(o.Ss, o.Kk1, o.Kk2, o.eps)
             Yy0 == receptor_activity(o.Ss0, o.Kk1, o.Kk2, o.eps)
         IN  Ok(Assigned([o EXCEPT !.Yy = Yy, !.Yy0 = Yy0, !.dYy = VecSub(Yy, Yy0)],
                         {"Yy", "Yy0", "dYy"}))

(***************************************************************************)
(* Compressed sensing functions.                                           *)
(***************************************************************************)
LinearizationAtSignal(o) == o.Ss

\* line 559: the response is linearized at the learned background
LinearizationPoint(o) == o.Ss0

set_linearized_response(o) ==
    IF AnyNone(o, {"Ss0", "Kk1", "Kk2", "eps"}) THEN Raise(o, "TypeError")
    ELSE Ok(Assigned([o EXCEPT
                        !.Rr = linear_gain(LinearizationPoint(o), o.Kk1, o.Kk2, o.eps)],
                     {"Rr"}))

\* src/src/decode_CS.py: the minimizer started from a Gaussian draw of the
\* global generator (no seeding), of length Nn = len(Rr[0, :])
decode_CS(Rr, Yy, rng) ==
    <<"minimize", "L1_strong", Rr, Yy, <<"normal", 0, 1000, rng>>>>

decode(o) ==
    IF "Rr" \in o.absent THEN Raise(o, "AttributeError")
    ELSE IF o.Mm = 0 THEN Raise(o, "IndexError")
    ELSE IF IsNone(o, "dYy") THEN Raise(o, "TypeError")
    ELSE Ok(Assigned([o EXCEPT !.dSs_est = decode_CS(o.Rr, o.dYy, o.rng),
                               !.rng = <<"drawn", o.rng>>],
                     {"dSs_est"}))

(***************************************************************************)
(* Encoding functions: the steps each encode_* method calls, in order.     *)
(***************************************************************************)
EncodeChainTable(name) ==
    CASE name = "encode_normal_activity" ->
           <<"set_sparse_signals", "set_normal_free_energy", "set_Kk2_normal_activity",
             "add_inhibition", "set_measured_activity", "set_linearized_response">>
      [] name = "encode_uniform_activity" ->
           <<"set_sparse_signals", "set_normal_free_energy", "set_Kk2_uniform_activity",
             "add_inhibition", "set_measured_activity", "set_linearized_response">>
      [] name = "encode_normal_activity_mixture" ->
           <<"set_sparse_signals", "set_normal_free_energy",
             "set_Kk2_normal_activity_mixture",
             "add_inhibition", "set_measured_activity", "set_linearized_response">>
      [] name = "encode_normal_Kk" ->
           <<"set_sparse_signals", "set_normal_free_energy", "set_normal_Kk",
             "add_inhibition", "set_measured_activity", "set_linearized_response">>
      [] name = "encode_uniform_Kk" ->
           <<"set_sparse_signals", "set_normal_free_energy", "set_uniform_Kk",
             "add_inhibition", "set_measured_activity", "set_linearized_response">>
      [] name = "encode_mixture_Kk" ->
           <<"set_sparse_signals", "set_normal_free_energy", "set_mixture_Kk",
             "set_measured_activity", "set_linearized_response">>
      [] name = "encode_adapted_normal_activity" ->
           <<"set_sparse_signals", "set_normal_Kk", "set_adapted_free_energy",
             "set_measured_activity", "set_linearized_response">>
      [] name = "encode_manual_signal_normal_Kk" ->
           <<"set_manual_signals", "set_normal_Kk", "set_normal_free_energy",
             "add_inhibition", "set_measured_activity", "set_linearized_response">>
      [] name = "encode_manual_signal_uniform_Kk" ->
           <<"set_manual_signals", "set_uniform_Kk", "set_normal_free_energy",
             "add_inhibition", "set_measured_activity", "set_linearized_response">>

EncodeChainMisplaced(name) ==
    IF name = "encode_normal_Kk"
    THEN <<"set_sparse_signals", "set_normal_free_energy", "set_normal_Kk",
           "set_measured_activity", "add_inhibition", "set_linearized_response">>
    ELSE EncodeChainTable(name)

EncodeChainEnergyFirst(name) ==
    IF name = "encode_adapted_normal_activity"
    THEN <<"set_sparse_signals", "set_adapted_free_energy", "set_normal_Kk",
           "set_measured_activity", "set_linearized_response">>
    ELSE EncodeChainTable(name)

\* the steps of encode_<name>
EncodeChain(name) == EncodeChainTable(name)

\* the pipeline state fields a method reads before assigning them itself
\* (lines 257, 413-416, 537-540, 559, 566)
StateReads(step) ==
    CASE step = "set_adapted_free_energy" -> { "Ss0", "Kk1", "Kk2" }
      [] step = "add_inhibition" -> { "Kk1", "Kk2", "eps" }
      [] step = "set_measured_activity" -> { "Ss", "Ss0", "Kk1", "Kk2", "eps" }
      [] step = "set_linearized_response" -> { "Ss0", "Kk1", "Kk2", "eps" }
      [] step = "decode" -> { "Rr", "dYy" }
      [] OTHER -> {}

\* the pipeline state fields a method assigns
StateWrites(step) ==
    CASE step \in { "set_sparse_signals", "set_manual_signals" } -> { "Ss", "Ss0" }
      [] step \in { "set_adapted_free_energy", "set_normal_free_energy",
                   "set_random_free_energy" } -> { "eps" }
      [] step \in { "set_mixture_Kk", "set_normal_Kk", "set_uniform_Kk",
                   "set_Kk2_normal_activity", "set_Kk2_uniform_activity",
                   "set_Kk2_normal_activity_mixture", "add_inhibition" } ->
             { "Kk1", "Kk2" }
      [] step = "set_measured_activity" -> { "dYy" }
      [] step = "set_linearized_response" -> { "Rr" }
      [] OTHER -> {}

EncodeNames ==
    { "encode_normal_activity", "encode_uniform_activity",
      "encode_normal_activity_mixture", "encode_normal_Kk", "encode_uniform_Kk",
      "encode_mixture_Kk", "encode_adapted_normal_activity",
      "encode_manual_signal_normal_Kk", "encode_manual_signal_uniform_Kk" }

\* The keyword mapping an encode_* method hands to the step it calls.
ForwardedKw(name, step, kw) ==
    IF /\ name \in {"encode_normal_activity", "encode_normal_activity_mixture"}
       /\ step \in {"set_Kk2_normal_activity", "set_Kk2_normal_activity_mixture"}
    THEN kw ELSE EmptyDict

SignalSteps == { "set_sparse_signals", "set_manual_signals" }
EnergySteps == { "set_adapted_free_energy", "set_normal_free_energy",
                 "set_random_free_energy" }
BindingSteps == { "set_mixture_Kk", "set_normal_Kk", "set_uniform_Kk",
                  "set_Kk2_normal_activity", "set_Kk2_uniform_activity",
                  "set_Kk2_normal_activity_mixture" }
\* One method call on the object, by name.
Call(o, step, kw) ==
    CASE step = "set_sparse_signals" -> set_sparse_signals(o)
      [] step = "set_manual_signals" -> set_manual_signals(o)
      [] step = "set_adapted_free_energy" -> set_adapted_free_energy(o)
      [] step = "set_normal_free_energy" -> set_normal_free_energy(o)
      [] step = "set_random_free_energy" -> set_random_free_energy(o)
      [] step = "set_temporal_adapted_epsilon" -> set_temporal_adapted_epsilon(o)
      [] step = "set_mixture_Kk" -> set_mixture_Kk(o, TRUE)
      [] step = "set_normal_Kk" -> set_normal_Kk(o, TRUE)
      [] step = "set_uniform_Kk" -> set_uniform_Kk(o, TRUE)
      [] step = "set_Kk2_normal_activity" -> set_Kk2_normal_activity(o, TRUE, kw)
      [] step = "set_Kk2_uniform_activity" -> set_Kk2_uniform_activity(o, TRUE, kw)
      [] step = "set_Kk2_normal_activity_mixture" ->
             set_Kk2_normal_activity_mixture(o, TRUE, kw)
      [] step = "add_inhibition" -> add_inhibition(o)
      [] step = "set_measured_activity" -> set_measured_activity(o)
      [] step = "set_linearized_response" -> set_linearized_response(o)
      [] step = "decode" -> decode(o)

(***************************************************************************)
(* Configurations.  Keyword values are floats in thousandths.              *)
(***************************************************************************)
OptKw(f, vals) == { EmptyDict } \cup { (f :> v) : v \in vals }

DualKw == { EmptyDict, ("mu_dSs_2" :> 600),
            ("mu_dSs_2" :> 600) @@ ("sigma_dSs_2" :> 50) }

\* Configurations of the signal generation: dimensions, split, second odor
\* statistics, manual support (possibly outside [0, Nn)), seed.
SignalKwargs ==
    UNION { UNION { { ("Nn" :> n * 1000) @@ ("Kk" :> k * 1000) @@ ("seed_dSs" :> sd * 1000)
                         @@ sp @@ du @@ mn :
                      sp \in OptKw("Kk_split", { x * 1000 : x \in (-1)..(k + 1) }),
                      du \in DualKw,
                      mn \in OptKw("manual_dSs_idxs", SUBSET (0..n)),
                      sd \in 1..2 } :
                    k \in 0..(n + 1) } :
            n \in 1..MaxNn }

InhibitionKw ==
    { ("inhibitory_fraction" :> f) @@ ("inhibitory_total_activity" :> a) :
        f \in {0, 500, 750}, a \in {0, 500} }

\* Configurations of a full pipeline: receptor count and inhibition vary.
PipelineKwargs ==
    { ("Nn" :> MaxNn * 1000) @@ ("Kk" :> 1000) @@ ("Mm" :> m * 1000)
        @@ ("manual_dSs_idxs" :> {0}) @@ ih :
      m \in {0, MaxMm}, ih \in InhibitionKw }

NpChoices == { {}, {"inhibitory_total_activity"} }

(***************************************************************************)
(* Calls on one object.                                                    *)
(***************************************************************************)
Invoke(step, kw) ==
    LET r == Call(obj, step, kw)
    IN  /\ obj' = r.obj
        /\ last_err' = r.err
        /\ last_call' = step
        /\ pre' = obj
        /\ ncalls' = ncalls + 1
        /\ UNCHANGED <<twin, chain, chain_pc, log, enc_kw>>
        /\ UNCHANGED <<runVars, tempVars, sweepVars>>

CallSetSparseSignals == ncalls < MaxCalls /\ Invoke("set_sparse_signals", EmptyDict)
CallSetManualSignals == ncalls < MaxCalls /\ Invoke("set_manual_signals", EmptyDict)
CallSetAdaptedFreeEnergy == ncalls < MaxCalls /\ Invoke("set_adapted_free_energy", EmptyDict)
CallSetNormalFreeEnergy == ncalls < MaxCalls /\ Invoke("set_normal_free_energy", EmptyDict)
CallSetRandomFreeEnergy == ncalls < MaxCalls /\ Invoke("set_random_free_energy", EmptyDict)
CallSetNormalKk == ncalls < MaxCalls /\ Invoke("set_normal_Kk", EmptyDict)
CallAddInhibition == ncalls < MaxCalls /\ Invoke("add_inhibition", EmptyDict)
CallSetMeasuredActivity == ncalls < MaxCalls /\ Invoke("set_measured_activity", EmptyDict)
CallSetLinearizedResponse ==
    ncalls < MaxCalls /\ Invoke("set_linearized_response", EmptyDict)
CallDecode == ncalls < MaxCalls /\ Invoke("decode", EmptyDict)

(***************************************************************************)
(* Signal generation on every signal configuration.                        *)
(***************************************************************************)
SignalsInit ==
    /\ \E kw \in SignalKwargs : obj = four_state_receptor_CS(kw, {})
    /\ twin = None /\ pre = None
    /\ last_call = "" /\ last_err = ""
    /\ chain = "" /\ chain_pc = 0 /\ log = <<>> /\ enc_kw = EmptyDict /\ ncalls = 0
    /\ RunIdle /\ TempIdle /\ SweepIdle

SignalsNext == CallSetSparseSignals \/ CallSetManualSignals

SpecSignals == SignalsInit /\ [][SignalsNext]_vars

(***************************************************************************)
(* Pipeline steps called in any order.                                     *)
(***************************************************************************)
StepsInit ==
    /\ \E kw \in PipelineKwargs, np \in NpChoices : obj = four_state_receptor_CS(kw, np)
    /\ twin = None /\ pre = None
    /\ last_call = "" /\ last_err = ""
    /\ chain = "" /\ chain_pc = 0 /\ log = <<>> /\ enc_kw = EmptyDict /\ ncalls = 0
    /\ RunIdle /\ TempIdle /\ SweepIdle

StepsNext ==
    \/ CallSetSparseSignals
    \/ CallSetAdaptedFreeEnergy
    \/ CallSetNormalFreeEnergy
    \/ CallSetRandomFreeEnergy
    \/ CallSetNormalKk
    \/ CallAddInhibition
    \/ CallSetMeasuredActivity
    \/ CallSetLinearizedResponse
    \/ CallDecode

SpecSteps == StepsInit /\ [][StepsNext]_vars
(***************************************************************************)
(* One encode_* method run on a model, followed by decode as CS_run.py     *)
(* lines 53-54 do.  twin is a second model built from the same mapping     *)
(* except for sigma_dSs and run through the same method.                   *)
(***************************************************************************)
EncodeKwChoices == { EmptyDict, ("mu_Ss0" :> 2000) @@ ("mu_eps" :> 4000) }

TwinSigma == { 0, 200 }

EncodeInit ==
    /\ chain \in EncodeNames
    /\ enc_kw \in EncodeKwChoices
    /\ \E kw \in PipelineKwargs, np \in NpChoices, sg \in TwinSigma :
          /\ obj = four_state_receptor_CS(kw, np)
          /\ twin = Ok(four_state_receptor_CS(kw @@ ("sigma_dSs" :> sg), np))
    /\ pre = None
    /\ last_call = "" /\ last_err = ""
    /\ chain_pc = 0 /\ log = <<>> /\ ncalls = 0
    /\ RunIdle /\ TempIdle /\ SweepIdle

\* the next call of the encode_* method body; an exception ends the method
EncodeStep ==
    /\ last_err = ""
    /\ chain_pc < Len(EncodeChain(chain))
    /\ LET step == EncodeChain(chain)[chain_pc + 1]
           kw == ForwardedKw(chain, step, enc_kw)
           r == Call(obj, step, kw)
       IN  /\ obj' = r.obj
           /\ last_err' = r.err
           /\ last_call' = step
           /\ twin' = IF twin.err = "" THEN Call(twin.obj, step, kw) ELSE twin
           /\ log' = Append(log, step)
    /\ pre' = obj
    /\ chain_pc' = chain_pc + 1
    /\ ncalls' = ncalls + 1
    /\ UNCHANGED <<chain, enc_kw>>
    /\ UNCHANGED <<runVars, tempVars, sweepVars>>

\* CS_run.py line 54, after the encode method returned
EncodeDecode ==
    /\ last_err = ""
    /\ chain_pc = Len(EncodeChain(chain))
    /\ last_call # "decode"
    /\ LET r == decode(obj)
       IN  /\ obj' = r.obj
           /\ last_err' = r.err
           /\ twin' = IF twin.err = "" THEN decode(twin.obj) ELSE twin
    /\ last_call' = "decode"
    /\ pre' = obj
    /\ ncalls' = ncalls + 1
    /\ UNCHANGED <<chain, chain_pc, log, enc_kw>>
    /\ UNCHANGED <<runVars, tempVars, sweepVars>>

EncodeNext == EncodeStep \/ EncodeDecode

SpecEncode == EncodeInit /\ [][EncodeNext]_vars

(***************************************************************************)
(* src/scripts/temporal_CS_run.py: one temporal run.  heap maps references *)
(* to objects, work is the reference the script's name  obj  holds,        *)
(* obj_list the list of references built by the loop, dumped what          *)
(* dump_objects last wrote.  chain is the encode method named by the       *)
(* run_specs of the specification file.  The keyword arguments have their  *)
(* defaults: sigma_Ss0 = 0, offsets 0, multipliers 1/3 and 1/9, no window. *)
(***************************************************************************)
\* the values of a signal trace file, in thousandths
TraceLevels == { 0, 900, 1800 }

RECURSIVE SeqsUpTo(_, _)
SeqsUpTo(S, n) ==
    IF n = 0 THEN { <<>> }
    ELSE LET shorter == SeqsUpTo(S, n - 1)
         IN  shorter \cup { Append(q, x) : q \in { r \in shorter : Len(r) = n - 1 },
                                          x \in S }

TraceFiles == SeqsUpTo(TraceLevels, MaxT)

\* the second odor's trace file: as long as the first
SecondTraceFiles(file) == { f \in SeqsUpTo({0, 900}, MaxT) : Len(f) = Len(file) }

\* the signal_window keyword: None or [first, last)
Windows == { <<>>, <<0, 1>>, <<1, MaxT>> }

TemporalKwargs ==
    { ("Nn" :> MaxNn * 1000) @@ ("Kk" :> 1000) @@ ("Mm" :> m * 1000)
        @@ ("manual_dSs_idxs" :> {0})
        @@ ("inhibitory_fraction" :> f) @@ ("inhibitory_total_activity" :> 500) @@ sp :
      m \in {0, MaxMm}, f \in {0, 500}, sp \in { EmptyDict, ("Kk_split" :> 1000) } }

\* Python 2:  obj.Kk_split > 0  (None compares below every number)
SecondOdor(o) == ~IsNone(o, "Kk_split") /\ o.Kk_split > 0

\* set_signal_trace (not among the sources): the time axis and the values of
\* the trace files become attributes of the model
set_signal_trace(o, file, file2) ==
    LET o1 == Assigned([o EXCEPT !.signal_trace = file,
                                 !.signal_trace_Tt = [i \in DOMAIN file |-> i - 1]],
                       {"signal_trace", "signal_trace_Tt"})
    IN  IF SecondOdor(o)
        THEN Assigned([o1 EXCEPT !.signal_trace_2 = file2], {"signal_trace_2"})
        ELSE o1

\* Python:  s[w[0]: w[1]]  for 0 <= w[0], w[1]
PySlice(s, w) ==
    LET hi == IF w[2] < Len(s) THEN w[2] ELSE Len(s)
    IN  IF w[1] >= hi THEN <<>> ELSE SubSeq(s, w[1] + 1, hi)

Windowed(s, w) == IF w = <<>> THEN s ELSE PySlice(s, w)

\* sp.sum(trace <= 0) == 0
AllPositive(values) == \A i \in DOMAIN values : values[i] > 0

CheckedAfterWindow(o, w) == Windowed(o.signal_trace, w)

\* line 52: the trace the assert reads, the window not yet applied
CheckedTrace(o, w) == o.signal_trace

\* lines 51-67: the traces loaded, checked and cut to the window
LoadTraces(o, file, file2, w) ==
    LET o1 == set_signal_trace(o, file, file2)
        o2 == [o1 EXCEPT !.signal_trace_Tt = Windowed(@, w),
                         !.signal_trace = Windowed(@, w)]
        o3 == [o2 EXCEPT !.signal_trace_2 = Windowed(@, w)]
    IN  IF ~AllPositive(CheckedTrace(o1, w)) THEN Raise(o1, "AssertionError")
        ELSE IF ~SecondOdor(o2) THEN Ok(o2)
        ELSE IF ~AllPositive(o2.signal_trace_2) THEN Raise(o2, "AssertionError")
        ELSE Ok(o3)

\* calls made one after the other until one raises
RECURSIVE RunSteps(_, _, _, _)
RunSteps(o, steps, name, kw) ==
    IF steps = <<>> THEN [obj |-> o, err |-> "", calls |-> <<>>]
    ELSE LET r == Call(o, Head(steps), ForwardedKw(name, Head(steps), kw))
             rest == RunSteps(r.obj, Tail(steps), name, kw)
         IN  IF r.err # "" THEN [obj |-> r.obj, err |-> r.err, calls |-> <<Head(steps)>>]
             ELSE [rest EXCEPT !.calls = <<Head(steps)>> \o @]

\* encode_CS.single_encode_CS (not among the sources): the encode method the
\* run specification names, run once on the model, which is returned
single_encode_CS(o, name) == RunSteps(o, EncodeChain(name), name, EmptyDict)

\* lines 89-92
TemporalUpdateSteps ==
    <<"set_sparse_signals", "set_temporal_adapted_epsilon", "set_measured_activity",
      "set_linearized_response">>

AliasCopy(h, r) == [heap |-> h, ref |-> r]

\* line 98, copy.deepcopy(obj): a new object with the fields' values
deepcopy(h, r) == [heap |-> Append(h, h[r]), ref |-> Len(h) + 1]

\* save_data.dump_objects (not among the sources): the list is written out
\* by value
dump_objects(h, refs) == [i \in DOMAIN refs |-> h[refs[i]]]

\* states the generator of a process may be in when a run starts
OutsideStates == { <<"seeded", 0, "outside">>, <<"drawn", <<"entropy">>>> }

\* twin  is the working object of the same run made in another process,
\* whose generator starts in another state
TemporalInit ==
    /\ chain \in EncodeNames
    /\ \E kw \in TemporalKwargs, g \in OutsideStates :
          /\ heap = <<four_state_receptor_CS(kw, {})>>
          /\ twin = [four_state_receptor_CS(kw, {}) EXCEPT !.rng = g]
    /\ work = 1 /\ obj_list = <<>> /\ dumped = <<>>
    /\ iT = 0 /\ t_pc = "constructed" /\ t_err = "" /\ t_in = <<>>
    /\ obj = None /\ pre = None
    /\ last_call = "" /\ last_err = ""
    /\ chain_pc = 0 /\ log = <<>> /\ enc_kw = EmptyDict /\ ncalls = 0
    /\ RunIdle /\ SweepIdle

TemporalFrame ==
    UNCHANGED <<runVars, obj, pre, last_call, last_err, chain, chain_pc,
                enc_kw, ncalls, sweepVars>>

\* lines 51-69: the traces are loaded, checked and cut, the list created
TemporalLoadTrace ==
    /\ t_pc = "constructed"
    /\ \E file \in TraceFiles, w \in Windows :
       \E file2 \in SecondTraceFiles(file) :
          LET r == LoadTraces(heap[work], file, file2, w)
          IN  /\ SecondOdor(heap[work]) \/ file2 = [i \in DOMAIN file |-> 900]
              /\ heap' = [heap EXCEPT ![work] = r.obj]
              /\ twin' = LoadTraces(twin, file, file2, w).obj
              /\ t_err' = r.err
              /\ t_pc' = IF r.err = "" THEN "loop" ELSE "failed"
              /\ t_in' = [file |-> file, file2 |-> file2, window |-> w]
    /\ UNCHANGED <<work, obj_list, dumped, iT, log>>
    /\ TemporalFrame

\* lines 74-83: the timestep's background and fluctuation statistics
TimestepLevels(o, t) ==
    LET mu_Ss0 == o.signal_trace[t + 1]
        o1 == [o EXCEPT !.mu_Ss0 = mu_Ss0, !.sigma_Ss0 = 0,
                        !.mu_dSs = mu_Ss0 \div 3, !.sigma_dSs = mu_Ss0 \div 9,
                        !.np = @ \cup {"mu_Ss0", "mu_dSs", "sigma_dSs"}]
    IN  IF SecondOdor(o)
        THEN Assigned([o1 EXCEPT
                         !.mu_dSs_2 = o.signal_trace_2[t + 1] \div 3,
                         !.sigma_dSs_2 = o.signal_trace_2[t + 1] \div 9],
                      {"mu_dSs_2", "sigma_dSs_2"})
        ELSE o1

EncodeAtEveryTimestep(o, t, name) == single_encode_CS(o, name)

\* lines 86-92: the full encode method at the first timestep, then only the
\* signal, the free energy, the activity and the response
TimestepEncode(o, t, name) ==
    IF t = 0 THEN single_encode_CS(o, name)
    ELSE RunSteps(o, TemporalUpdateSteps, "", EmptyDict)

\* lines 70-83: the next timestep
TemporalSetLevels ==
    /\ t_pc = "loop"
    /\ iT < Len(heap[work].signal_trace_Tt)
    /\ heap' = [heap EXCEPT ![work] = TimestepLevels(heap[work], iT)]
    /\ twin' = TimestepLevels(twin, iT)
    /\ t_pc' = "encode"
    /\ UNCHANGED <<work, obj_list, dumped, iT, t_err, t_in, log>>
    /\ TemporalFrame

\* lines 86-92
TemporalEncode ==
    /\ t_pc = "encode"
    /\ LET r == TimestepEncode(heap[work], iT, chain)
       IN  /\ heap' = [heap EXCEPT ![work] = r.obj]
           /\ log' = log \o r.calls
           /\ t_err' = r.err
           /\ t_pc' = IF r.err = "" THEN "decode" ELSE "failed"
    /\ twin' = TimestepEncode(twin, iT, chain).obj
    /\ UNCHANGED <<work, obj_list, dumped, iT, t_in>>
    /\ TemporalFrame

\* line 95
TemporalDecode ==
    /\ t_pc = "decode"
    /\ LET r == decode(heap[work])
       IN  /\ heap' = [heap EXCEPT ![work] = r.obj]
           /\ t_err' = r.err
           /\ t_pc' = IF r.err = "" THEN "snapshot" ELSE "failed"
    /\ twin' = decode(twin).obj
    /\ log' = Append(log, "decode")
    /\ UNCHANGED <<work, obj_list, dumped, iT, t_in>>
    /\ TemporalFrame

\* line 98
TemporalSnapshot ==
    /\ t_pc = "snapshot"
    /\ LET c == deepcopy(heap, work)
       IN  /\ heap' = c.heap
           /\ obj_list' = Append(obj_list, c.ref)
    /\ t_pc' = "dump"
    /\ UNCHANGED <<twin, work, dumped, iT, t_err, t_in, log>>
    /\ TemporalFrame

\* line 100, and the loop's next round
TemporalDump ==
    /\ t_pc = "dump"
    /\ dumped' = dump_objects(heap, obj_list)
    /\ iT' = iT + 1
    /\ t_pc' = "loop"
    /\ UNCHANGED <<twin, heap, work, obj_list, t_err, t_in, log>>
    /\ TemporalFrame

\* line 102
TemporalReturn ==
    /\ t_pc = "loop"
    /\ iT = Len(heap[work].signal_trace_Tt)
    /\ t_pc' = "returned"
    /\ UNCHANGED <<twin, heap, work, obj_list, dumped, iT, t_err, t_in, log>>
    /\ TemporalFrame

TemporalNext ==
    \/ TemporalLoadTrace
    \/ TemporalSetLevels
    \/ TemporalEncode
    \/ TemporalDecode
    \/ TemporalSnapshot
    \/ TemporalDump
    \/ TemporalReturn

SpecTemporal == TemporalInit /\ [][TemporalNext]_vars

(***************************************************************************)
(* src/scripts/aggregate_objects.py, calculate_temporal_error_data.py and  *)
(* plot_temporal_data.py: the scripts that go over the whole grid of a     *)
(* run identifier.  The persistence layer (load_data, save_data) is not    *)
(* among the sources: a file holds what was saved under its name, loading  *)
(* a file that is not there raises IOError, saving replaces the file.      *)
(***************************************************************************)
Flags == { "f1", "f2" }

\* read_specs_file(data_flag)['iter_vars'] of the specification files
SpecFileChoices ==
    [Flags -> { <<>>, <<IterVar(NameB)>>, <<IterVar(NameA), IterVar(NameB)>>,
                <<IterVar(NameB), IterVar(NameA)>> }]

\* the argument: one identifier or a list of identifiers
FlagArguments ==
    { <<"str", f>> : f \in Flags } \cup
    { <<"list", q>> : q \in { <<"f1">>, <<"f1", "f2">>, <<"f2", "f1">> } }

\* lines 38-40: the lengths of the iterated variables, in the mapping's order
Dims(iv) == [i \in DOMAIN iv |-> Len(iv[i].vals)]

RECURSIVE GridIndices(_)
GridIndices(dims) ==
    IF dims = <<>> THEN { <<>> }
    ELSE { Append(g, x) : g \in GridIndices(SubSeq(dims, 1, Len(dims) - 1)),
                          x \in 0..(dims[Len(dims)] - 1) }

\* grid points whose object file may be absent
MissingChoices(files) ==
    { {} } \cup UNION { { { <<f, g>> } : g \in GridIndices(Dims(files[f])) } :
                        f \in Flags }

\* sp.nditer(sp.zeros(dims), flags=['multi_index'])
nditer(dims) == [multi_index |-> [i \in DOMAIN dims |-> 0], finished |-> FALSE]

\* the axes from the fastest to the slowest
FirstAxisFastest(dims) == [i \in DOMAIN dims |-> i]

\* C order, the default of nditer: the last axis varies fastest
AxisOrder(dims) == [i \in DOMAIN dims |-> Len(dims) + 1 - i]

RECURSIVE Advance(_, _, _)
Advance(idx, dims, axes) ==
    IF axes = <<>> THEN [multi_index |-> idx, finished |-> TRUE]
    ELSE LET a == Head(axes)
         IN  IF idx[a] + 1 < dims[a]
             THEN [multi_index |-> [idx EXCEPT ![a] = @ + 1], finished |-> FALSE]
             ELSE Advance([idx EXCEPT ![a] = 0], dims, Tail(axes))

\* it.iternext()
iternext(n, dims) == Advance(n.multi_index, dims, AxisOrder(dims))

\* the object CS_run saved for a grid point
SavedObject(flag, idx) == <<"CS_obj", flag, idx>>

\* the snapshots temporal_CS_run saved for a grid point, one per timestep
SavedSnapshots(flag, idx) ==
    [t \in 1..MaxT |->
        [signal_trace_Tt |-> [i \in 1..MaxT |-> 10 + i],
         signal_trace |-> [i \in 1..MaxT |-> 900 * i],
         eps |-> <<"eps", flag, idx, t>>,
         dSs |-> <<"dSs", flag, idx, t>>,
         dSs_est |-> <<"dSs_est", flag, idx, t>>]]

\* load_data.load_objects(iter_var_idxs, data_flag)
load_objects(idx, flag, content) ==
    IF <<flag, idx>> \in missing THEN [val |-> <<>>, err |-> "IOError"]
    ELSE [val |-> content, err |-> ""]

\* lines 30-31: a single identifier is made a list (Python 2: a str has no
\* __iter__)
AsList(arg) == IF arg[1] = "str" THEN <<arg[2]>> ELSE arg[2]

\* aggregate_objects called with its argument; calculate_temporal_error_data.py
\* run as the main program (lines 84-86); calculate_temporal_success called
\* by a module that imported it
SweepScripts ==
    { "aggregate_objects", "calculate_temporal_error_data.py",
      "calculate_temporal_success" }

SweepInit ==
    /\ sw_script \in SweepScripts
    /\ spec_files \in SpecFileChoices
    /\ missing \in MissingChoices(spec_files)
    /\ data_flags \in FlagArguments
    /\ sw_script # "aggregate_objects" => data_flags[1] = "str"
    /\ flag_no = 0 /\ iter_vars_dims = <<>> /\ it = <<>> /\ agg_obj_list = <<>>
    /\ loads = <<>> /\ aggregated = EmptyDict /\ trace = <<>> /\ data = EmptyDict
    /\ temporal_errors = EmptyDict
    /\ sw_pc = "start" /\ sw_err = ""
    /\ RunIdle /\ ModelIdle /\ TempIdle

SweepFrame == UNCHANGED <<runVars, modelVars, tempVars, sw_script, spec_files, missing>>

\* aggregate_objects, lines 29-31
AggStart ==
    /\ sw_script = "aggregate_objects" /\ sw_pc = "start"
    /\ data_flags' = <<"list", AsList(data_flags)>>
    /\ flag_no' = 1
    /\ sw_pc' = "for"
    /\ UNCHANGED <<iter_vars_dims, it, agg_obj_list, loads, aggregated, trace, data,
                   temporal_errors, sw_err>>
    /\ SweepFrame

\* lines 33-43: the next identifier's specification is read, the iterator
\* and the empty list are made; after the last identifier the function
\* returns
AggReadSpecs ==
    /\ sw_script = "aggregate_objects" /\ sw_pc = "for"
    /\ IF flag_no <= Len(data_flags[2])
       THEN LET dims == Dims(spec_files[data_flags[2][flag_no]])
            IN  /\ iter_vars_dims' = dims
                /\ it' = nditer(dims)
                /\ agg_obj_list' = <<>>
                /\ sw_pc' = "while"
       ELSE /\ sw_pc' = "done"
            /\ UNCHANGED <<iter_vars_dims, it, agg_obj_list>>
    /\ UNCHANGED <<data_flags, flag_no, loads, aggregated, trace, data,
                   temporal_errors, sw_err>>
    /\ SweepFrame

\* lines 44-47: one grid point is loaded and appended
AggLoad ==
    /\ sw_script = "aggregate_objects" /\ sw_pc = "while" /\ ~it.finished
    /\ LET flag == data_flags[2][flag_no]
           r == load_objects(it.multi_index, flag, SavedObject(flag, it.multi_index))
       IN  /\ loads' = Append(loads, <<flag, it.multi_index>>)
           /\ IF r.err # ""
              THEN /\ sw_err' = r.err /\ sw_pc' = "failed"
                   /\ UNCHANGED <<agg_obj_list, it>>
              ELSE /\ agg_obj_list' = Append(agg_obj_list, r.val)
                   /\ it' = iternext(it, iter_vars_dims)
                   /\ UNCHANGED <<sw_err, sw_pc>>
    /\ UNCHANGED <<data_flags, flag_no, iter_vars_dims, aggregated, trace, data,
                   temporal_errors>>
    /\ SweepFrame

\* line 49: the list is saved once the iterator is exhausted
AggSave ==
    /\ sw_script = "aggregate_objects" /\ sw_pc = "while" /\ it.finished
    /\ aggregated' = DictPut(aggregated, data_flags[2][flag_no], agg_obj_list)
    /\ flag_no' = flag_no + 1
    /\ sw_pc' = "for"
    /\ UNCHANGED <<data_flags, iter_vars_dims, it, agg_obj_list, loads, trace, data,
                   temporal_errors, sw_err>>
    /\ SweepFrame

MetricKeys == { "success_ratios", "nonzero_errors", "zero_errors", "epsilons" }

\* the index set of an array of shape  sp.hstack((nT, iter_vars_dims))
FullIndices(nT, dims) ==
    { <<t>> \o g : t \in 0..(nT - 1), g \in GridIndices(dims) }

\* lines 49-54
NewData(nT, dims) ==
    [k \in MetricKeys |-> [x \in FullIndices(nT, dims) |-> <<"0.0">>]]

\* lines 66-77: what one snapshot puts into the arrays (analysis.binary_errors
\* and binary_success are not among the sources)
Metric(key, snap) ==
    IF key = "nonzero_errors" THEN <<"errors_nonzero", snap.dSs, snap.dSs_est>>
    ELSE IF key = "zero_errors" THEN <<"errors_zero", snap.dSs, snap.dSs_est>>
    ELSE IF key = "success_ratios" THEN <<"binary_success", snap.dSs, snap.dSs_est>>
    ELSE <<"average", snap.eps>>

\* arrays that hold the current grid index only
FilledAfresh(d, Tt, idx, array) ==
    [k \in DOMAIN d |->
        [x \in DOMAIN d[k] |->
            IF Tail(x) = idx /\ x[1] < Len(Tt) THEN Metric(k, array[x[1] + 1])
            ELSE <<"0.0">>]]

\* lines 63-77: the arrays filled at one grid index for every timestep
Filled(d, Tt, idx, array) ==
    [k \in DOMAIN d |->
        [x \in DOMAIN d[k] |->
            IF Tail(x) = idx /\ x[1] < Len(Tt) THEN Metric(k, array[x[1] + 1])
            ELSE d[k][x]]]

\* lines 50-51: sp.hstack((nT, [])) is an array of floats, which sp.zeros
\* takes as a shape with a warning in the older numpy releases and rejects
\* with TypeError in the newer ones; with iterated variables the shape is
\* an array of integers
ShapeAccepted(dims) == IF dims = <<>> THEN BOOLEAN ELSE { TRUE }

\* calculate_temporal_success, lines 35-54: the name data_flag the body
\* reads is the global of lines 85-86, unbound when the function is called
\* from another module; the first grid point is loaded for the time axis
TsStart ==
    /\ sw_script \in { "calculate_temporal_error_data.py", "calculate_temporal_success" }
    /\ sw_pc = "start"
    /\ IF sw_script = "calculate_temporal_success"
       THEN /\ sw_err' = "NameError" /\ sw_pc' = "failed"
            /\ UNCHANGED <<iter_vars_dims, it, loads, trace, data>>
       ELSE LET flag == data_flags[2]
                dims == Dims(spec_files[flag])
                first == nditer(dims).multi_index
                r == load_objects(first, flag, SavedSnapshots(flag, first))
            IN  /\ iter_vars_dims' = dims
                /\ it' = nditer(dims)
                /\ loads' = Append(loads, <<flag, first>>)
                /\ IF r.err # ""
                   THEN /\ sw_err' = r.err /\ sw_pc' = "failed"
                        /\ UNCHANGED <<trace, data>>
                   ELSE /\ trace' = [nT |-> Len(r.val),
                                     Tt |-> r.val[1].signal_trace_Tt,
                                     signal |-> r.val[1].signal_trace]
                        /\ \E accepted \in ShapeAccepted(dims) :
                              IF accepted
                              THEN /\ data' = NewData(Len(r.val), dims)
                                   /\ sw_pc' = "while"
                                   /\ UNCHANGED sw_err
                              ELSE /\ sw_err' = "TypeError" /\ sw_pc' = "failed"
                                   /\ UNCHANGED data
    /\ UNCHANGED <<data_flags, flag_no, agg_obj_list, aggregated, temporal_errors>>
    /\ SweepFrame

\* lines 56-81: one grid point is loaded, its errors are computed for every
\* timestep, the summary is saved, the iterator moves on
TsGridPoint ==
    /\ sw_script = "calculate_temporal_error_data.py"
    /\ sw_pc = "while" /\ ~it.finished
    /\ LET flag == data_flags[2]
           r == load_objects(it.multi_index, flag,
                             SavedSnapshots(flag, it.multi_index))
           d == Filled(data, trace.Tt, it.multi_index, r.val)
       IN  /\ loads' = Append(loads, <<flag, it.multi_index>>)
           /\ IF r.err # ""
              THEN /\ sw_err' = r.err /\ sw_pc' = "failed"
                   /\ UNCHANGED <<data, temporal_errors, it>>
              ELSE /\ data' = d
                   /\ temporal_errors' = DictPut(temporal_errors, flag, d)
                   /\ it' = iternext(it, iter_vars_dims)
                   /\ UNCHANGED <<sw_err, sw_pc>>
    /\ UNCHANGED <<data_flags, flag_no, iter_vars_dims, agg_obj_list, aggregated,
                   trace>>
    /\ SweepFrame

\* the loop of line 56 ends and the function returns
TsReturn ==
    /\ sw_script = "calculate_temporal_error_data.py"
    /\ sw_pc = "while" /\ it.finished
    /\ sw_pc' = "done"
    /\ UNCHANGED <<data_flags, flag_no, iter_vars_dims, it, agg_obj_list, loads,
                   aggregated, trace, data, temporal_errors, sw_err>>
    /\ SweepFrame

\* plot_temporal_data.py: the keys of the loaded summary the function reads,
\* in the order it reads them (lines 56, 65, 71, 77, 84, 91)
PlotKeys == <<"nonzero_errors", "Tt", "signal", "zero_errors", "epsilons">>

\* plot_temporal_data(data_flag) with the default axes 0 and 1: the
\* exception that ends it, or ""
plot_temporal_data(d, dims) ==
    IF Len(dims) < 2 THEN "IndexError"
    ELSE IF \E n \in DOMAIN PlotKeys : PlotKeys[n] \notin DOMAIN d THEN "KeyError"
    ELSE ""

\* the summary a finished calculate_temporal_error_data.py left is plotted
PlotTemporalData ==
    /\ sw_script = "calculate_temporal_error_data.py" /\ sw_pc = "done"
    /\ LET flag == data_flags[2]
       IN  /\ data' = temporal_errors[flag]
           /\ sw_err' = plot_temporal_data(temporal_errors[flag],
                                           Dims(spec_files[flag]))
    /\ sw_pc' = IF sw_err' = "" THEN "plotted" ELSE "plot failed"
    /\ UNCHANGED <<data_flags, flag_no, iter_vars_dims, it, agg_obj_list, loads,
                   aggregated, trace, temporal_errors>>
    /\ SweepFrame

SweepNext ==
    \/ AggStart
    \/ AggReadSpecs
    \/ AggLoad
    \/ AggSave
    \/ TsStart
    \/ TsGridPoint
    \/ TsReturn
    \/ PlotTemporalData

SpecSweep == SweepInit /\ [][SweepNext]_vars

(***************************************************************************)
(* load_specs.read_specs_file, lines 60-101: the lines of the              *)
(* specification file are read one after the other into the four           *)
(* mappings.  A line is a text; floats are kept in thousandths.            *)
(***************************************************************************)
KwIterVar == <<"i", "t", "e", "r", "_", "v", "a", "r">>
KwFixedVar == <<"f", "i", "x", "e", "d", "_", "v", "a", "r">>
KwRelVar == <<"r", "e", "l", "_", "v", "a", "r">>
KwParam == <<"p", "a", "r", "a", "m">>
KwLin == <<"l", "i", "n">>
KwExp == <<"e", "x", "p">>
KwOther == <<"s", "e", "e", "d">>

RECURSIVE Join(_)
Join(words) ==
    IF Len(words) = 0 THEN <<>>
    ELSE IF Len(words) = 1 THEN words[1]
    ELSE words[1] \o <<" ">> \o Join(Tail(words))

\* the lines a specification file is made of
SpecLines ==
    { <<>>, <<" ">>,
      Join(<< <<"#">>, KwParam, NameB, <<"3">> >>),
      Join(<< <<>>, <<"#">>, NameA >>),
      Join(<< KwIterVar, NameA, KwLin, <<"0">>, <<"2">>, <<"3">> >>),
      Join(<< KwIterVar, NameB, KwExp, <<"0">>, <<"1">>, <<"2">>, <<"1", "0">> >>),
      Join(<< KwFixedVar, NameA, <<"2", ".", "0">> >>),
      Join(<< KwRelVar, NameR, <<"a", "*", "2">> >>),
      Join(<< KwParam, NameB, <<"3">> >>),
      Join(<< KwParam, NameB >>),
      Join(<< KwOther, NameS, <<"1">> >>),
      Join(<< KwOther, NameS >>),
      KwOther }

\* Python:  line.strip()  is empty
Blank(line) == \A i \in 1..Len(line) : line[i] = " "

\* Python:  line.startswith("#")
IsComment(line) == Len(line) > 0 /\ line[1] = "#"

\* Python:  line.split()
Split(line) == SelectSeq(SplitOn(line, " "), LAMBDA w : w # <<>>)

\* Python:  float(s),  in thousandths
PyFloat(w) == IF LiteralVal(w) < 0 THEN [err |-> "ValueError", val |-> 0]
              ELSE [err |-> "", val |-> 1000 * LiteralVal(w)]

\* Python:  int(s)
PyIntOf(w) == IF AllDigits(w) THEN [err |-> "", val |-> DigitsVal(w)]
              ELSE [err |-> "ValueError", val |-> 0]

\* sp.linspace(lo, hi, n)
linspace(lo, hi, n) ==
    [i \in 1..n |-> IF n = 1 THEN lo ELSE lo + ((i - 1) * (hi - lo)) \div (n - 1)]

\* ordered[name] = vals  on an OrderedDict
OrderedPut(ordered, name, vals) ==
    IF \E i \in DOMAIN ordered : ordered[i].name = name
    THEN [i \in DOMAIN ordered |->
             IF ordered[i].name = name THEN [name |-> name, vals |-> vals]
             ELSE ordered[i]]
    ELSE Append(ordered, [name |-> name, vals |-> vals])

Mappings(iv, fx, rl, pr, e) ==
    [iter_vars |-> iv, fixed_vars |-> fx, rel_vars |-> rl, params |-> pr, err |-> e]

\* line 73:  var_name = keys[1]  is evaluated for every record, before the
\* kind is looked at
NameMissing(keys) == Len(keys) < 2

\* lines 75-84
ReadIterVar(m, keys) ==
    IF Len(keys) < 6 THEN [m EXCEPT !.err = "IndexError"]
    ELSE LET lo == PyFloat(keys[4])
             hi == PyFloat(keys[5])
             Nn == PyIntOf(keys[6])
             base == IF Len(keys) < 7 THEN [err |-> "IndexError", val |-> 0]
                     ELSE PyFloat(keys[7])
             lin == linspace(lo.val, hi.val, Nn.val)
         IN  IF lo.err # "" THEN [m EXCEPT !.err = lo.err]
             ELSE IF hi.err # "" THEN [m EXCEPT !.err = hi.err]
             ELSE IF Nn.err # "" THEN [m EXCEPT !.err = Nn.err]
             ELSE IF keys[3] = KwLin
                  THEN [m EXCEPT !.iter_vars = OrderedPut(@, keys[2], lin)]
             ELSE IF keys[3] = KwExp
                  THEN IF base.err # "" THEN [m EXCEPT !.err = base.err]
                       ELSE [m EXCEPT !.iter_vars =
                                OrderedPut(@, keys[2],
                                    [i \in DOMAIN lin |-> <<"**", base.val, lin[i]>>])]
             ELSE m

\* lines 85-90: the records with one value
ReadValue(m, keys) ==
    IF Len(keys) < 3 THEN [m EXCEPT !.err = "IndexError"]
    ELSE IF keys[1] = KwFixedVar
         THEN IF PyFloat(keys[3]).err # "" THEN [m EXCEPT !.err = PyFloat(keys[3]).err]
              ELSE [m EXCEPT !.fixed_vars = DictPut(@, keys[2], PyFloat(keys[3]).val)]
    ELSE IF keys[1] = KwRelVar
         THEN [m EXCEPT !.rel_vars = DictPut(@, keys[2], keys[3])]
    ELSE IF PyIntOf(keys[3]).err # "" THEN [m EXCEPT !.err = PyIntOf(keys[3]).err]
         ELSE [m EXCEPT !.params = DictPut(@, keys[2], PyIntOf(keys[3]).val)]

\* lines 68-92: one line of the file
read_line(m, line) ==
    IF Blank(line) \/ IsComment(line) THEN m
    ELSE LET keys == Split(line)
         IN  IF NameMissing(keys) THEN [m EXCEPT !.err = "IndexError"]
             ELSE IF keys[1] = KwIterVar THEN ReadIterVar(m, keys)
             ELSE IF keys[1] \in { KwFixedVar, KwRelVar, KwParam } THEN ReadValue(m, keys)
             ELSE m

\* lines 55-65: the file is open, the four mappings are empty
ReadInit ==
    /\ script = "read_specs_file"
    /\ specs_file \in SeqsUpTo(SpecLines, MaxLines)
    /\ iter_vars = <<>> /\ iter_vars_idxs = <<>>
    /\ rel_vars = EmptyDict /\ fixed_vars = EmptyDict /\ params = EmptyDict
    /\ vars_to_pass = EmptyDict
    /\ run_pc = "reading" /\ run_err = ""
    /\ ModelIdle /\ TempIdle /\ SweepIdle

\* lines 67-92: the next line
ReadLine ==
    /\ run_pc = "reading" /\ specs_file # <<>>
    /\ LET r == read_line(Mappings(iter_vars, fixed_vars, rel_vars, params, ""),
                          Head(specs_file))
       IN  /\ iter_vars' = r.iter_vars /\ fixed_vars' = r.fixed_vars
           /\ rel_vars' = r.rel_vars /\ params' = r.params
           /\ run_err' = r.err
           /\ run_pc' = IF r.err = "" THEN "reading" ELSE "failed"
    /\ specs_file' = Tail(specs_file)
    /\ UNCHANGED <<script, iter_vars_idxs, vars_to_pass>>
    /\ UNCHANGED <<modelVars, tempVars, sweepVars>>

\* lines 94-101: the file is closed and the mappings are returned
ReadClose ==
    /\ run_pc = "reading" /\ specs_file = <<>>
    /\ run_pc' = "read"
    /\ UNCHANGED <<script, specs_file, iter_vars, iter_vars_idxs, rel_vars, fixed_vars,
                   params, vars_to_pass, run_err>>
    /\ UNCHANGED <<modelVars, tempVars, sweepVars>>

ReadNext == ReadLine \/ ReadClose

SpecRead == ReadInit /\ [][ReadNext]_vars

(***************************************************************************)
(* The constructor on its own, called with the keyword mapping as in      *)
(* CS_run.py line 52, integer parameters given as floats.                  *)
(***************************************************************************)
\* keyword arguments a caller may pass or leave out
OptionalKwargs ==
    ("Nn" :> 2700) @@ ("Kk" :> 1500) @@ ("Kk_split" :> 1900) @@
    ("seed_Kk1" :> -1500) @@ ("seed_inhibition" :> 2500) @@
    ("mu_Ss0" :> 2000) @@ ("mu_Kk1" :> "2e4")

ConstructorKwargs ==
    { [k \in K |-> OptionalKwargs[k]] : K \in SUBSET DOMAIN OptionalKwargs }

ConstructInit ==
    /\ script = "CS_run" /\ specs_file = <<>>
    /\ iter_vars = <<>> /\ iter_vars_idxs = <<>>
    /\ rel_vars = None /\ fixed_vars = None /\ params = None
    /\ vars_to_pass \in ConstructorKwargs
    /\ run_pc = "merged" /\ run_err = ""
    /\ ModelIdle /\ TempIdle /\ SweepIdle

\* CS_run.py line 52
ConstructModel ==
    /\ run_pc = "merged"
    /\ obj' = four_state_receptor_CS(vars_to_pass, {})
    /\ run_pc' = "constructed"
    /\ UNCHANGED <<script, specs_file, iter_vars, iter_vars_idxs, rel_vars, fixed_vars,
                   params, vars_to_pass, run_err>>
    /\ UNCHANGED <<twin, pre, last_call, last_err, chain, chain_pc, log, enc_kw, ncalls>>
    /\ UNCHANGED <<tempVars, sweepVars>>

ConstructNext == ConstructModel

SpecConstruct == ConstructInit /\ [][ConstructNext]_vars

(***************************************************************************)
(* Properties of the signal generation and of the pipeline steps.          *)
(***************************************************************************)
\* C4: after a signal-generation step has completed, Kk <= Nn, the support
\* has exactly Kk distinct entries in [0, Nn), and Ss = dSs + Ss0_noisy with
\* dSs, Ss0 and Ss of length Nn.
C4_SignalInvariant ==
    (last_call \in SignalSteps /\ last_err = "") =>
       /\ obj.Kk <= obj.Nn
       /\ obj.idxs \subseteq Idx(obj.Nn)
       /\ Cardinality(obj.idxs) = obj.Kk
       /\ DOMAIN obj.dSs = Idx(obj.Nn)
       /\ DOMAIN obj.Ss0 = Idx(obj.Nn)
       /\ DOMAIN obj.Ss = Idx(obj.Nn)
       /\ obj.Ss = VecAdd(obj.dSs, obj.Ss0_noisy)

\* the single-odor draw of set_sparse_signals on object o
SingleOdorDraw(o) == sparse_vector(o.Nn, o.Kk, o.mu_dSs, o.sigma_dSs, o.seed_dSs)

\* C7: set_sparse_signals with a nonzero Kk_split fails when Kk_split is
\* outside [0, Kk] or a second-odor parameter is missing (on the assertion,
\* unless the single-odor draw itself was rejected first); when it succeeds,
\* idxs_2 holds exactly Kk_split indices of the support and dSs differs from
\* the single-odor draw only at the idxs_2 positions.
C7_SplitValidated ==
    (last_call = "set_sparse_signals" /\ SplitRequested(pre)) =>
       /\ (~SplitInRange(pre) \/ ~DualParamsSet(pre)) =>
             last_err = IF SingleOdorDraw(pre).err = "" THEN "AssertionError"
                        ELSE SingleOdorDraw(pre).err
       /\ last_err = "" =>
             /\ Cardinality(obj.idxs_2) = pre.Kk_split
             /\ obj.idxs_2 \subseteq obj.idxs
             /\ obj.idxs = SingleOdorDraw(pre).idxs
             /\ \A i \in Idx(obj.Nn) \ obj.idxs_2 :
                   obj.dSs[i] = SingleOdorDraw(pre).vec[i]
             /\ \A i \in obj.idxs_2 :
                   obj.dSs[i] = DualOdorOverwrite(pre, SingleOdorDraw(pre).vec, {i})[i]

\* a split of one component out of a support smaller than the signal succeeded
C7_Witness ==
    /\ last_call = "set_sparse_signals" /\ last_err = ""
    /\ SplitRequested(pre)
    /\ obj.idxs_2 # {} /\ obj.idxs # Idx(obj.Nn)

\* C6: add_inhibition with inhibitory_fraction = 0, on Kk1, Kk2 and eps
\* already set and for any inhibitory_total_activity, completes without
\* error and leaves Kk1 and Kk2 unchanged.
C6_NoInhibitionIsNoOp ==
    (/\ last_call = "add_inhibition"
     /\ pre.inhibitory_fraction = 0
     /\ ~AnyNone(pre, {"Kk1", "Kk2", "eps"})) =>
       /\ last_err = ""
       /\ obj.Kk1 = pre.Kk1
       /\ obj.Kk2 = pre.Kk2

EpsAdapted(o) ==
    /\ ~AnyNone(o, {"eps"})
    /\ \E i \in DOMAIN o.eps : o.eps[i][1] = "free_energy"

Kk2Inhibited(o) ==
    /\ ~AnyNone(o, {"Kk2"})
    /\ \E i \in DOMAIN o.Kk2 : \E j \in DOMAIN o.Kk2[i] : o.Kk2[i][j][1] = "inf"

\* C8: set_adapted_free_energy fails on its assertion, changing nothing,
\* whenever inhibitory_fraction # 0; and no sequence of pipeline steps
\* reaches a state where eps was assigned by set_adapted_free_energy and
\* some Kk2 entry was set to infinity by add_inhibition.
C8_InhibitionExcludesAdapted ==
    /\ (last_call = "set_adapted_free_energy" /\ pre.inhibitory_fraction # 0) =>
          (last_err = "AssertionError" /\ obj = pre)
    /\ ~(EpsAdapted(obj) /\ Kk2Inhibited(obj))

\* inhibition was applied, and the adapted free energy was then refused
C8_Witness ==
    /\ last_call = "set_adapted_free_energy" /\ last_err = "AssertionError"
    /\ Kk2Inhibited(obj)

(***************************************************************************)
(* Properties of the encode_* methods.                                     *)
(***************************************************************************)
\* positions of the calls so far that belong to a set of steps
Pos(S) == { i \in 1..Len(log) : log[i] \in S }

ChainReturned == chain_pc = Len(EncodeChain(chain)) /\ last_err = ""

\* C5 as stated: in every encode_* method the free-energy step precedes the
\* binding step, add_inhibition is called between the binding step and
\* set_measured_activity, and set_linearized_response is last.
C5_FixedOrder ==
    /\ \A b \in Pos(BindingSteps) : \E e \in Pos(EnergySteps) : e < b
    /\ \A m \in Pos({"set_measured_activity"}) :
          \E b \in Pos(BindingSteps) : \E a \in Pos({"add_inhibition"}) :
             b < a /\ a < m
    /\ \A l \in Pos({"set_linearized_response"}) :
          l = Len(log) /\ chain_pc = Len(EncodeChain(chain))

NoInhibitionChains == { "encode_mixture_Kk", "encode_adapted_normal_activity" }

\* C5, amended: every encode_* method first generates the signals, then
\* runs one free-energy step and one binding step (the binding step first in
\* encode_adapted_normal_activity and in the encode_manual_signal_* methods),
\* then add_inhibition directly before set_measured_activity (not at all in
\* encode_mixture_Kk and encode_adapted_normal_activity), then
\* set_measured_activity, and set_linearized_response last.
C5_OrderAsCoded ==
    /\ log # <<>> => Pos(SignalSteps) = {1}
    /\ Cardinality(Pos(EnergySteps)) <= 1 /\ Cardinality(Pos(BindingSteps)) <= 1
    /\ Pos(EnergySteps) \cup Pos(BindingSteps) \subseteq {2, 3}
    /\ \A b \in Pos(BindingSteps) :
          (\E e \in Pos(EnergySteps) : e > b) =>
             chain \in { "encode_adapted_normal_activity",
                         "encode_manual_signal_normal_Kk",
                         "encode_manual_signal_uniform_Kk" }
    /\ \A a \in Pos({"add_inhibition"}) :
          /\ a = 4 /\ chain \notin NoInhibitionChains
          /\ Pos(EnergySteps) # {} /\ Pos(BindingSteps) # {}
    /\ \A m \in Pos({"set_measured_activity"}) :
          /\ Pos(EnergySteps) # {} /\ Pos(BindingSteps) # {}
          /\ IF chain \in NoInhibitionChains
             THEN m = 4 ELSE m = 5 /\ log[4] = "add_inhibition"
    /\ \A l \in Pos({"set_linearized_response"}) :
          /\ l = Len(log) /\ chain_pc = Len(EncodeChain(chain))
          /\ log[l - 1] = "set_measured_activity"
    /\ ChainReturned => log[Len(log)] = "set_linearized_response"

\* an encode method that calls its binding step before its free-energy step
\* and has no add_inhibition call has returned
C5_Witness ==
    /\ ChainReturned /\ chain = "encode_adapted_normal_activity"
    /\ log = <<"set_sparse_signals", "set_normal_Kk", "set_adapted_free_energy",
               "set_measured_activity", "set_linearized_response">>

\* C9: two models that differ only in sigma_dSs, run through the same
\* encode_* method, fail or succeed alike and hold the same Kk1, Kk2, eps
\* and Rr after every call; Rr is the gain at Ss0.
C9_SigmaNonInterference ==
    /\ twin.err = last_err
    /\ \A f \in {"Kk1", "Kk2", "eps", "Rr"} :
          /\ AnyNone(obj, {f}) <=> AnyNone(twin.obj, {f})
          /\ ~AnyNone(obj, {f}) => obj[f] = twin.obj[f]
    /\ (last_call = "set_linearized_response" /\ last_err = "") =>
          obj.Rr = linear_gain(obj.Ss0, obj.Kk1, obj.Kk2, obj.eps)

\* both models finished the method with receptors present, their signals
\* differing
C9_Witness ==
    /\ ChainReturned /\ obj.Mm > 0 /\ ~AnyNone(obj, {"Rr"})
    /\ obj.sigma_dSs # twin.obj.sigma_dSs
    /\ obj.dSs # twin.obj.dSs /\ obj.Ss # twin.obj.Ss

(***************************************************************************)
(* Properties of the temporal run.                                         *)
(***************************************************************************)
\* timesteps whose snapshot has been appended
Processed == IF t_pc = "dump" THEN iT + 1 ELSE iT

SnapshotsInTimeOrder ==
    /\ Len(obj_list) = Processed
    /\ \A i \in 1..Len(obj_list) :
          heap[obj_list[i]].mu_Ss0 = heap[obj_list[i]].signal_trace[i]

SnapshotsKept ==
    /\ Len(obj_list') >= Len(obj_list)
    /\ \A i \in 1..Len(obj_list) : heap'[obj_list'[i]] = heap[obj_list[i]]

\* C10: the list of snapshots holds one entry per processed timestep, in time
\* order; it only grows, and no step of the run changes any field of an
\* entry already appended.
C10_SnapshotsAreValues == [](SnapshotsInTimeOrder) /\ [][SnapshotsKept]_vars

\* the run returned with two snapshots, the working model having been
\* changed after the first was taken
C10_Witness ==
    /\ t_pc = "returned" /\ Len(obj_list) >= 2
    /\ heap[obj_list[1]].mu_Ss0 # heap[work].mu_Ss0
    /\ heap[obj_list[1]].eps # heap[work].eps
    /\ heap[obj_list[1]] # heap[obj_list[2]]

(***************************************************************************)
(* C11.  A temporal run whose background trace file holds a value <= 0     *)
(* anywhere, inside or outside the signal_window, ends with the assertion  *)
(* error of line 52, and so does a run with Kk_split > 0 whose second      *)
(* trace file holds a value <= 0; such a run has encoded nothing, decoded  *)
(* nothing, kept no snapshot and dumped nothing.                           *)
(***************************************************************************)
BadTraces ==
    \/ ~AllPositive(t_in.file)
    \/ SecondOdor(heap[work]) /\ ~AllPositive(t_in.file2)

NothingDone ==
    /\ obj_list = <<>> /\ dumped = <<>> /\ iT = 0 /\ Len(heap) = 1
    /\ StateFields \subseteq heap[work].none
    /\ {"Rr", "dSs_est"} \subseteq heap[work].absent

C11_TraceCheckedBeforeWindow ==
    (t_in # <<>> /\ BadTraces) =>
        /\ t_pc = "failed" /\ t_err = "AssertionError"
        /\ NothingDone

C11_Witness ==
    /\ t_pc = "failed" /\ t_in # <<>> /\ t_in.window # <<>>
    /\ ~AllPositive(t_in.file)
    /\ Windowed(t_in.file, t_in.window) # <<>>
    /\ AllPositive(Windowed(t_in.file, t_in.window))
    /\ NothingDone

(***************************************************************************)
(* C12.  Two temporal runs of the same specification, grid index and trace *)
(* files, made in processes whose generators start in different states,    *)
(* hold the same dSs_est after the decode of every timestep, and the       *)
(* generator state the initial guess of decode_CS is drawn from goes back  *)
(* to a seeding made inside the run.                                       *)
(***************************************************************************)
RECURSIVE RngRoot(_)
RngRoot(g) == IF g[1] = "drawn" THEN RngRoot(g[2]) ELSE g

Decoded(o) == "dSs_est" \notin o.absent

\* the generator state the initial guess was drawn from
GuessState(o) == o.dSs_est[5][4]

RECURSIVE Prod(_)
Prod(dims) == IF dims = <<>> THEN 1 ELSE Head(dims) * Prod(Tail(dims))

\* the k-th grid index, k = 1, 2, ..., counting with the last variable fastest
RowMajor(dims, k) ==
    [i \in DOMAIN dims |->
        ((k - 1) \div Prod(SubSeq(dims, i + 1, Len(dims)))) % dims[i]]

RECURSIVE LoadsOf(_, _)
LoadsOf(flag, q) ==
    IF q = <<>> THEN <<>>
    ELSE IF Head(q)[1] = flag THEN <<Head(q)[2]>> \o LoadsOf(flag, Tail(q))
    ELSE LoadsOf(flag, Tail(q))

C13_AggregateRowMajor ==
    sw_script = "aggregate_objects" =>
        /\ \A f \in DOMAIN aggregated :
              LET dims == Dims(spec_files[f])
              IN  /\ Len(aggregated[f]) = Prod(dims)
                  /\ \A k \in 1..Prod(dims) :
                        aggregated[f][k] = SavedObject(f, RowMajor(dims, k))
                  /\ LoadsOf(f, loads) = [k \in 1..Prod(dims) |-> RowMajor(dims, k)]
        /\ sw_pc = "done" =>
              \A n \in DOMAIN data_flags[2] : data_flags[2][n] \in DOMAIN aggregated

C13_Witness ==
    /\ sw_script = "aggregate_objects" /\ sw_pc = "done"
    /\ Len(data_flags[2]) = 2
    /\ Dims(spec_files["f1"]) = <<3, 2>>
    /\ Len(aggregated["f1"]) = 6
    /\ aggregated["f1"][2] = SavedObject("f1", <<0, 1>>)
    /\ aggregated["f1"][3] = SavedObject("f1", <<1, 0>>)

(***************************************************************************)
(* C14.  When aggregate_objects fails at a grid point, the objects it had  *)
(* loaded before for the same run identifier are in the saved aggregated   *)
(* list of that identifier.                                                *)
(***************************************************************************)
C14_SavedPerGridPoint ==
    (sw_script = "aggregate_objects" /\ sw_pc = "failed" /\ agg_obj_list # <<>>) =>
        LET f == data_flags[2][flag_no]
        IN  /\ f \in DOMAIN aggregated
            /\ \A k \in DOMAIN agg_obj_list : aggregated[f][k] = agg_obj_list[k]

(***************************************************************************)
(* C15.  Every temporal-error summary calculate_temporal_success has saved *)
(* holds the four metric arrays, the time axis 'Tt' and the ground-truth   *)
(* trace 'signal', so that plot_temporal_data finds every key it reads.    *)
(***************************************************************************)
C15_SummaryHasAxes ==
    /\ \A f \in DOMAIN temporal_errors :
          MetricKeys \cup {"Tt", "signal"} \subseteq DOMAIN temporal_errors[f]
    /\ sw_pc = "plot failed" => sw_err # "KeyError"

(***************************************************************************)
(* C16.  A line of the specification file that is not blank, does not      *)
(* start with '#' and whose first token is none of iter_var, fixed_var,    *)
(* param, rel_var -- whatever the number of its tokens -- leaves the four  *)
(* mappings as they were, and read_specs_file goes on to the next line.    *)
(***************************************************************************)
UnknownKind(line) ==
    /\ ~Blank(line) /\ ~IsComment(line)
    /\ Split(line)[1] \notin { KwIterVar, KwFixedVar, KwParam, KwRelVar }

C16_UnknownKindIgnored ==
    [][(run_pc = "reading" /\ specs_file # <<>> /\ UnknownKind(Head(specs_file))) =>
          /\ run_pc' = "reading" /\ run_err' = ""
          /\ specs_file' = Tail(specs_file)
          /\ UNCHANGED <<iter_vars, fixed_vars, rel_vars, params>>]_vars

(***************************************************************************)
(* C17.  After construction every passed field holds the passed value,     *)
(* converted to an integer by truncation when it is one of Nn, Kk, Mm,     *)
(* Kk_split, seed_Ss0, seed_dSs, seed_Kk1, seed_Kk2,                       *)
(* seed_receptor_activity; every field that was not passed holds its       *)
(* documented default; the state fields Kk1 ... eps are unset.             *)
(***************************************************************************)
IntConverted ==
    { "Nn", "Kk", "Mm", "Kk_split", "seed_Ss0", "seed_dSs", "seed_Kk1", "seed_Kk2",
      "seed_receptor_activity" }

\* the integer part of a float given in thousandths
Truncated(x) ==
    LET whole(y) == CHOOSE n \in 0..y : n * 1000 <= y /\ y < (n + 1) * 1000
    IN  IF x >= 0 THEN whole(x) ELSE -whole(-x)

\* the defaults as documented
DocumentedDefaults ==
    [ Nn |-> 50, Kk |-> 5, Mm |-> 20,
      seed_Ss0 |-> 1, seed_dSs |-> 1, seed_Kk1 |-> 1, seed_Kk2 |-> 1,
      seed_inhibition |-> 1, seed_eps |-> 1, seed_receptor_activity |-> 1,
      seed_adapted_activity |-> 1,
      mu_Ss0 |-> 1000, sigma_Ss0 |-> 1, mu_dSs |-> 300, sigma_dSs |-> 100,
      mu_Kk1 |-> "1e4", sigma_Kk1 |-> "1e3", mu_Kk2 |-> "1e-3", sigma_Kk2 |-> "1e-4",
      mu_Kk1_1 |-> "1e4", sigma_Kk1_1 |-> "1e3", mu_Kk1_2 |-> "1e4",
      sigma_Kk1_2 |-> "1e3", mu_Kk2_1 |-> "1e-3", sigma_Kk2_1 |-> "1e-4",
      mu_Kk2_2 |-> "1e-3", sigma_Kk2_2 |-> "1e-4",
      Kk1_p |-> 500, Kk2_p |-> 500,
      lo_Kk1_hyper_lo |-> "1e2", lo_Kk1_hyper_hi |-> "1e2",
      hi_Kk1_hyper_lo |-> "1e2", hi_Kk1_hyper_hi |-> "1e2",
      lo_Kk2_hyper_lo |-> "1e-4", lo_Kk2_hyper_hi |-> "1e-4",
      hi_Kk2_hyper_lo |-> "1e-3", hi_Kk2_hyper_hi |-> "1e-3",
      mu_Kk1_hyper_lo |-> "1e4", mu_Kk1_hyper_hi |-> "1e4",
      sigma_Kk1_hyper_lo |-> "1e3", sigma_Kk1_hyper_hi |-> "1e3",
      mu_Kk2_hyper_lo |-> "1e-3", mu_Kk2_hyper_hi |-> "1e-3",
      sigma_Kk2_hyper_lo |-> "1e-4", sigma_Kk2_hyper_hi |-> "1e-4",
      inhibitory_fraction |-> 0, inhibitory_total_activity |-> 0,
      activity_p |-> 500,
      receptor_tuning_mixture_mu_1 |-> "0.5", receptor_tuning_mixture_mu_2 |-> "0.5",
      receptor_tuning_mixture_sigma_1 |-> "0.1",
      receptor_tuning_mixture_sigma_2 |-> "0.1",
      uniform_activity_lo |-> "1e-5", uniform_activity_hi |-> "1e-4",
      receptor_tuning_mu_hyper_mu |-> "0.2", receptor_tuning_mu_hyper_sigma |-> "0",
      receptor_tuning_sigma_hyper_lo |-> "0", receptor_tuning_sigma_hyper_hi |-> "0.3",
      mu_eps |-> 5000, sigma_eps |-> 0,
      normal_eps_tuning_prefactor |-> "0.0", normal_eps_tuning_width |-> "1.0",
      WL_scaling |-> "0.0",
      adapted_activity_mu |-> "0.5", adapted_activity_sigma |-> "0.01" ]

\* documented as absent
DocumentedAbsent == { "Kk_split", "mu_dSs_2", "sigma_dSs_2" }

UnsetStateFields == { "Kk1", "Kk2", "Ss0", "dSs", "Ss", "Yy0", "dYy", "Yy", "eps" }

C17_Constructed ==
    (script = "CS_run" /\ run_pc = "constructed") =>
        /\ \A f \in DOMAIN vars_to_pass :
              /\ f \notin obj.none
              /\ obj[f] = IF f \in IntConverted THEN Truncated(vars_to_pass[f])
                          ELSE vars_to_pass[f]
        /\ \A f \in (DOMAIN DocumentedDefaults) \ (DOMAIN vars_to_pass) :
              f \notin obj.none /\ obj[f] = DocumentedDefaults[f]
        /\ \A f \in DocumentedAbsent \ (DOMAIN vars_to_pass) : f \in obj.none
        /\ UnsetStateFields \subseteq obj.none

C17_Witness ==
    /\ script = "CS_run" /\ run_pc = "constructed"
    /\ vars_to_pass = [k \in {"Nn", "seed_Kk1", "seed_inhibition", "mu_Kk1"} |->
                          OptionalKwargs[k]]
    /\ obj.Nn = 2 /\ obj.seed_Kk1 = -1 /\ obj.seed_inhibition = 2500
    /\ obj.mu_Kk1 = "2e4" /\ obj.Kk = 5 /\ "Kk_split" \in obj.none

(***************************************************************************)
(* C18.  A call of add_inhibition that completes has, in every receptor's  *)
(* row, set exactly round(Nn * inhibitory_fraction) entries of Kk2 to      *)
(* infinity; those entries of Kk1 hold one common value, and every other   *)
(* entry of Kk1 and Kk2 is as it was before the call.                      *)
(***************************************************************************)
\* round(x)  for a non-negative float given in thousandths
Rounded(x) == (x + 500) \div 1000

InhibitedIn(o, i) == { j \in DOMAIN o.Kk2[i] : o.Kk2[i][j][1] = "inf" }

C18_RoundedInhibitoryCount ==
    (last_call = "add_inhibition" /\ last_err = "" /\ ~Kk2Inhibited(pre)) =>
        \A i \in DOMAIN obj.Kk2 :
            /\ Cardinality(InhibitedIn(obj, i)) =
                  Rounded(obj.Nn * obj.inhibitory_fraction)
            /\ \A j, k \in InhibitedIn(obj, i) : obj.Kk1[i][j] = obj.Kk1[i][k]
            /\ \A j \in (DOMAIN obj.Kk2[i]) \ InhibitedIn(obj, i) :
                  obj.Kk1[i][j] = pre.Kk1[i][j] /\ obj.Kk2[i][j] = pre.Kk2[i][j]

(***************************************************************************)
(* C19.  When an encode_* method wrapping set_Kk2_normal_activity,         *)
(* set_Kk2_uniform_activity or set_Kk2_normal_activity_mixture is called   *)
(* with overrides of mu_Ss0 and mu_eps, the setter inverts Kk2 at the      *)
(* overriding values and leaves the model's own mu_Ss0 and mu_eps as they  *)
(* were.                                                                   *)
(***************************************************************************)
ActivitySetters ==
    { "set_Kk2_normal_activity", "set_Kk2_uniform_activity",
      "set_Kk2_normal_activity_mixture" }

\* the arguments mu_Ss0, mu_eps of the inversion behind a clipped Kk2 entry
InversionPoint(entry) == <<entry[2][4], entry[2][5]>>

C19_OverridesUsed ==
    (last_call \in ActivitySetters /\ last_err = "" /\ enc_kw # EmptyDict) =>
        /\ \A i \in DOMAIN obj.Kk2 : \A j \in DOMAIN obj.Kk2[i] :
              InversionPoint(obj.Kk2[i][j]) = <<enc_kw["mu_Ss0"], enc_kw["mu_eps"]>>
        /\ obj.mu_Ss0 = pre.mu_Ss0 /\ obj.mu_eps = pre.mu_eps

(***************************************************************************)
(* C20.  In a temporal run no binding step and no add_inhibition is called *)
(* after the first decode: every later timestep calls the signal, the      *)
(* free-energy, the activity and the linearization step and then decode,   *)
(* which always directly follows set_linearized_response; Kk1 and Kk2 of   *)
(* every snapshot are those of the first snapshot.                         *)
(***************************************************************************)
Decodes == { p \in DOMAIN log : log[p] = "decode" }

\* the calls of the timestep that ended with the decode at position p
TimestepCalls(p) ==
    LET before == { q \in Decodes : q < p }
        start == IF before = {} THEN 1
                 ELSE 1 + CHOOSE q \in before : \A r \in before : r <= q
    IN  SubSeq(log, start, p - 1)

C20_BindingOnlyAtFirstTimestep ==
    /\ \A p \in Decodes :
          /\ p > 1 /\ log[p - 1] = "set_linearized_response"
          /\ (\E q \in Decodes : q < p) =>
                TimestepCalls(p) = <<"set_sparse_signals", "set_temporal_adapted_epsilon",
                                     "set_measured_activity", "set_linearized_response">>
    /\ \A p \in DOMAIN log :
          (\E q \in Decodes : q < p) => log[p] \notin BindingSteps \cup {"add_inhibition"}
    /\ \A i \in DOMAIN obj_list :
          /\ heap[obj_list[i]].Kk1 = heap[obj_list[1]].Kk1
          /\ heap[obj_list[i]].Kk2 = heap[obj_list[1]].Kk2

C20_Witness ==
    /\ t_pc = "returned" /\ Len(obj_list) = 2
    /\ chain = "encode_normal_activity"
    /\ Cardinality(Decodes) = 2
    /\ heap[obj_list[1]].Kk2 = heap[obj_list[2]].Kk2
    /\ Kk2Inhibited(heap[obj_list[2]])
    /\ heap[obj_list[1]].Ss # heap[obj_list[2]].Ss
    /\ heap[obj_list[1]].Rr # heap[obj_list[2]].Rr
    /\ heap[obj_list[1]].Yy # heap[obj_list[2]].Yy


(***************************************************************************)
(* C21.  calculate_temporal_success run as the main program: the loop of   *)
(* line 56 loads the grid points one by one in row-major order, each one   *)
(* once and the first one included (the load of line 43 does not move the  *)
(* iterator); after g passes of the loop the persisted summary holds, in   *)
(* each of the four metric arrays, the value of every timestep of the      *)
(* first g grid points and zeros elsewhere, and nothing is persisted       *)
(* before the first pass; a run that returns has made as many passes as    *)
(* the grid has points.                                                    *)
(***************************************************************************)
\* the passes of the loop begun: every load but the one of line 43
LoopLoads == IF loads = <<>> THEN <<>> ELSE Tail(LoadsOf(data_flags[2], loads))

\* the passes of the loop completed
Passes ==
    IF sw_pc = "failed" /\ LoopLoads # <<>> THEN Len(LoopLoads) - 1
    ELSE Len(LoopLoads)

\* the summary after the first g grid points
SummaryAfter(flag, dims, g) ==
    [k \in MetricKeys |->
        [x \in FullIndices(MaxT, dims) |->
            IF \E n \in 1..g : RowMajor(dims, n) = Tail(x)
            THEN Metric(k, SavedSnapshots(flag, Tail(x))[x[1] + 1])
            ELSE <<"0.0">>]]

C21_EveryGridPointOnce ==
    sw_script = "calculate_temporal_error_data.py" =>
        LET flag == data_flags[2]
            dims == Dims(spec_files[flag])
        IN  /\ Len(LoopLoads) <= Prod(dims)
            /\ LoopLoads = [n \in 1..Len(LoopLoads) |-> RowMajor(dims, n)]
            /\ IF Passes = 0 THEN temporal_errors = EmptyDict
               ELSE /\ DOMAIN temporal_errors = { flag }
                    /\ temporal_errors[flag] = SummaryAfter(flag, dims, Passes)
            /\ sw_pc \in { "done", "plotted", "plot failed" } => Passes = Prod(dims)

C21_Witness ==
    /\ sw_script = "calculate_temporal_error_data.py" /\ sw_pc = "while"
    /\ iter_vars_dims = <<3, 2>>
    /\ it.multi_index = <<1, 0>>
    /\ Len(loads) = 3 /\ loads[1] = loads[2]
    /\ \A t \in 0..(MaxT - 1) :
          /\ temporal_errors[data_flags[2]]["epsilons"][<<t, 0, 0>>] # <<"0.0">>
          /\ temporal_errors[data_flags[2]]["epsilons"][<<t, 0, 1>>] # <<"0.0">>
          /\ temporal_errors[data_flags[2]]["epsilons"][<<t, 1, 0>>] = <<"0.0">>


(***************************************************************************)
(* C22.  parse_relative_vars called with an empty mapping of relative      *)
(* variables does not fail and returns the accumulator as                  *)
(* parse_iterated_vars left it, so that the run goes on to the merges and  *)
(* the construction of the model.                                          *)
(***************************************************************************)
C22_EmptyRelVarsPass ==
    (run_pc = "relative" /\ rel_vars = <<>>) =>
        /\ run_err = ""
        /\ vars_to_pass =
              parse_iterated_vars(iter_vars, iter_vars_idxs, EmptyDict).vtp


(***************************************************************************)
(* C23.  In every encode_* method followed by decode, each pipeline state  *)
(* field (Ss, Ss0, Kk1, Kk2, eps, dYy, Rr) the method just called reads    *)
(* was set when the call began and is assigned by a method called earlier  *)
(* in the same chain; no call ends with the exception of an unset field,   *)
(* and every pipeline field the model holds was assigned by a method the   *)
(* chain has called.                                                       *)
(***************************************************************************)
PipelineFields == { "Ss", "Ss0", "Kk1", "Kk2", "eps", "dYy", "Rr" }

\* the methods the chain called before the last call
CalledEarlier ==
    IF last_call = "decode" THEN log ELSE SubSeq(log, 1, Len(log) - 1)

C23_DefinedBeforeUse ==
    (chain # "" /\ last_call # "") =>
        /\ \A f \in StateReads(last_call) :
              /\ ~AnyNone(pre, {f})
              /\ \E n \in DOMAIN CalledEarlier : f \in StateWrites(CalledEarlier[n])
        /\ last_err \notin { "TypeError", "AttributeError" }
        /\ \A f \in PipelineFields :
              ~AnyNone(obj, {f}) => \E n \in DOMAIN log : f \in StateWrites(log[n])

C23_Witness ==
    /\ chain = "encode_manual_signal_normal_Kk"
    /\ last_call = "decode" /\ last_err = ""
    /\ obj.inhibitory_fraction = 500 /\ obj.Mm > 0
    /\ log = EncodeChainTable(chain)
    /\ AnyNone(pre, {"dSs_est"})
    /\ ~AnyNone(obj, PipelineFields \cup {"dSs_est"})

=============================================================================
